---- MODULE Spec2Model ----
(***************************************************************************)
(* A model of the interactive structured-text viewer of api-tool:          *)
(* display.py (Line, JsonAnnotation, JsonEntity, Display),                 *)
(* lines_display.py (LinesDisplay), timer.py (RepeatingTimer) and the      *)
(* places of api_request.py / socketio_request.py that write to the        *)
(* display from other threads.                                             *)
(*                                                                         *)
(* Text is a sequence of one-character strings, so that splitlines,        *)
(* lstrip, the key/value regular expression and json.dumps are computed    *)
(* on characters as the code computes them.  Python indices are kept       *)
(* 0-based: row r of the buffer is content[r + 1].  None is -1 for an      *)
(* integer field and NoSpan for a span.                                    *)
(***************************************************************************)
EXTENDS Integers, Sequences, FiniteSets, TLC

VARIABLES
    started,      \* Display.started
    content,      \* LinesDisplay.content: the buffer, a sequence of Line records
    top_row,      \* LinesDisplay.top_row
    bottom_row,   \* LinesDisplay.bottom_row
    cursor_row,   \* LinesDisplay.cursor_row (None = -1)
    mode,         \* LinesDisplay.mode: "SCROLL" or "JSON"
    header,       \* LinesDisplay.header, by the call that set it
    footer,       \* LinesDisplay.footer, by the call that set it
    fault,        \* "none", or the uncaught exception ("IndexError") or "hang" that ended the run
    calls,        \* the number of calls, requests and events so far (bounded by MaxCalls)
    pc,           \* main.py main loop: "menu", "fired", "wait" or "browse"
    sock,         \* SocketIORequest: "off", "started", "connected" or "stopped"
    mutex,        \* Display.mutex: "free" or the thread that holds it
    todo,         \* per thread, the steps left of the handler it is running
    running,      \* RepeatingTimer.running
    timer,        \* RepeatingTimer._timer: the number of a Timer, 0 for None
    timers,       \* the threading.Timer objects made so far, each by its position
    stop_pc,      \* RepeatingTimer.stop as called by fire: "idle", "clear", "load", "cancel", "returned"
                  \* (and the owner's place in a start() call: "start_set", "start_make", "start_start")
    stop_t,       \* the Timer that stop has loaded from _timer
    late,         \* the number of callback() calls made after stop returned
    height,       \* scr.getmaxyx()[0]: the rows of the terminal
    breakpoints,  \* a colors list handed to Line.add_color_span
    ln,           \* a Line on which draw, increase_offset and decrease_offset are called
    width,        \* the width handed to Line.draw and Line.increase_offset
    painted,      \* what the last Line.draw wrote to the screen row with addstr
    lists,        \* the list objects that self.content has referred to, by their value
    ref,          \* which of them self.content refers to (0 while they are not followed)
    held,         \* per thread, the locals of the print it is running
    requests_dicts, \* main.py: the project's request list (line 199)
    menu_list,    \* MenuDisplay.items of the request menu
    selection,    \* MenuDisplay.selection
    menu_started, \* MenuDisplay.started
    selected,     \* main.py: what wait_for_selection returned (line 233; None = -1)
    built,        \* main.py: the request built for the selection (line 240)
    menu_pc       \* main.py: "start", "loop", "select" (in wait_for_selection), "returned" or "exit"

disp == <<started, content, top_row, bottom_row, cursor_row, mode, header,
          footer, fault>>
prog == <<pc, sock>>
conc == <<mutex, todo>>
tmr == <<running, timer, timers, stop_pc, stop_t, late>>
lin == <<breakpoints, ln, width, painted>>
heap == <<lists, ref, held>>
mnu == <<requests_dicts, menu_list, selection, menu_started, selected, built, menu_pc>>
vars == <<disp, calls, prog, conc, tmr, height, lin, heap, mnu>>

(***************************************************************************)
(* Bounds of the model.                                                    *)
(***************************************************************************)
MaxNodes == 3      \* nodes (scalars and containers) of a JSON value handed to print_json
MaxLines == 6      \* no append is started on a buffer that would grow beyond this
MaxCalls == 3      \* print and print_json calls in a run
Height == 5        \* terminal rows (scr.getmaxyx()[0]): header, footer and Height - 2 lines
Width == 8         \* terminal columns (scr.getmaxyx()[1])
MaxPayload == 2    \* nodes of a request header, request body or socket event value
MaxTicks == 1      \* ticks of the progress ticker while a request is awaited
MaxRequests == 1   \* requests made from the menu in a run
MaxTimers == 4     \* threading.Timer objects made in a run
MaxBuffer == 15    \* no response is printed to a buffer that would grow beyond this
MaxOffset == 3     \* offsets of the breakpoints and spans handed to add_color_span
MaxSpans == 2      \* add_color_span calls on one colors list
MinWidth == 4      \* the narrowest terminal a Line is drawn on
MinHeight == 1     \* the lowest terminal the display is drawn on
MaxSessions == 2   \* requests made and browsed one after the other
MaxStarts == 2     \* start() calls made by the owner of a RepeatingTimer
MaxEntries == 3    \* entries of a project's request list
MaxSelections == 2 \* selections made from the request menu in a run

(***************************************************************************)
(* Program constants.                                                      *)
(***************************************************************************)
Indent == 4
ColorDefault == 1
ColorAnnotation == 3
ColorKey == 7
ColorEntity == 8
OffsetStep == 10
OffsetMargin == 3
PageSize == 30
ColorCursor == 2
ColorMarker == 5
ColorCount == 9

None == -1
NoSpan == <<-1, -1>>

Max(a, b) == IF a >= b THEN a ELSE b
Min(a, b) == IF a <= b THEN a ELSE b

(***************************************************************************)
(* Strings.                                                                *)
(***************************************************************************)
IsSpace(c) == c = " "

\* number of leading whitespace characters: len(s) - len(s.lstrip())
LeadWs(s) ==
    IF \A i \in 1..Len(s) : IsSpace(s[i]) THEN Len(s)
    ELSE (CHOOSE i \in 1..Len(s) :
            /\ ~IsSpace(s[i])
            /\ \A j \in 1..(i - 1) : IsSpace(s[j])) - 1

\* str.lstrip()
Lstrip(s) == SubSeq(s, LeadWs(s) + 1, Len(s))

\* len(s.rstrip())
RstripLen(s) ==
    IF \A i \in 1..Len(s) : IsSpace(s[i]) THEN 0
    ELSE CHOOSE i \in 1..Len(s) :
            /\ ~IsSpace(s[i])
            /\ \A j \in (i + 1)..Len(s) : IsSpace(s[j])

\* s[a:b] for 0 <= a
Slice(s, a, b) == SubSeq(s, a + 1, Min(b, Len(s)))

\* ' ' * n
RECURSIVE Spaces(_)
Spaces(n) == IF n <= 0 THEN <<>> ELSE <<" ">> \o Spaces(n - 1)

\* str.splitlines(): the pieces between line breaks, without a last empty piece
RECURSIVE SplitFrom(_, _, _)
SplitFrom(s, i, cur) ==
    IF i > Len(s) THEN (IF cur = <<>> THEN <<>> ELSE <<cur>>)
    ELSE IF s[i] = "\n" THEN <<cur>> \o SplitFrom(s, i + 1, <<>>)
    ELSE SplitFrom(s, i + 1, Append(cur, s[i]))

Splitlines(s) == SplitFrom(s, 1, <<>>)

\* '\n'.join(lines)
RECURSIVE JoinLines(_)
JoinLines(ls) ==
    IF ls = <<>> THEN <<>>
    ELSE IF Len(ls) = 1 THEN ls[1]
    ELSE ls[1] \o <<"\n">> \o JoinLines(Tail(ls))

(***************************************************************************)
(* JSON values and json.dumps(obj, indent=4).  A value is a record         *)
(* [t, items]: t is "num", "str", "bool" or "null" for a scalar, "arr"     *)
(* for a list and "obj" for a dict, whose i-th key is written "k"; "objq"   *)
(* is a dict whose keys are the text a": (a quote, a colon and a space     *)
(* inside the key).                                                        *)
(***************************************************************************)
Scalar(t) == [t |-> t, items |-> <<>>]
ScalarKinds == {"num", "str"}

RECURSIVE TreesOfSize(_), ForestsOfSize(_)
TreesOfSize(n) ==
    (IF n = 1 THEN {Scalar(t) : t \in ScalarKinds} ELSE {})
    \cup {[t |-> c, items |-> f] : c \in {"arr", "obj"}, f \in ForestsOfSize(n - 1)}

ForestsOfSize(m) ==
    IF m = 0 THEN {<<>>}
    ELSE UNION {{<<t>> \o f : t \in TreesOfSize(k), f \in ForestsOfSize(m - k)} :
                k \in 1..m}

JsonValues == UNION {TreesOfSize(n) : n \in 1..MaxNodes}

ScalarText(t) ==
    IF t = "num" THEN <<"1">>
    ELSE IF t = "str" THEN <<"\"", "s", "\"">>
    ELSE IF t = "bool" THEN <<"t", "r", "u", "e">>
    ELSE <<"n", "u", "l", "l">>

KeyText == <<"\"", "k", "\"">>

\* json.dumps of the key 'a": ': the quote inside the key is escaped
QuoteKeyText == <<"\"", "a", "\\", "\"", ":", " ", "\"">>

\* the lines of json.dumps(v, indent=4) for a value that starts in column ind;
\* the first line is given without what precedes the value on it
RECURSIVE DumpLines(_, _), DumpItems(_, _, _)
DumpLines(v, ind) ==
    IF v.t \notin {"arr", "obj", "objq"} THEN <<ScalarText(v.t)>>
    ELSE IF v.items = <<>> THEN <<(IF v.t = "arr" THEN <<"[", "]">> ELSE <<"{", "}">>)>>
    ELSE <<(IF v.t = "arr" THEN <<"[">> ELSE <<"{">>)>>
         \o DumpItems(v, 1, ind + Indent)
         \o <<Spaces(ind) \o (IF v.t = "arr" THEN <<"]">> ELSE <<"}">>)>>

DumpItems(v, k, ind) ==
    IF k > Len(v.items) THEN <<>>
    ELSE LET sub == DumpLines(v.items[k], ind)
             prefix == Spaces(ind)
                       \o (IF v.t = "obj" THEN KeyText \o <<":", " ">>
                           ELSE IF v.t = "objq" THEN QuoteKeyText \o <<":", " ">>
                           ELSE <<>>)
             ls == <<prefix \o sub[1]>> \o Tail(sub)
             sep == IF k < Len(v.items)
                    THEN [ls EXCEPT ![Len(ls)] = @ \o <<",">>]
                    ELSE ls
         IN sep \o DumpItems(v, k + 1, ind)

JsonDumps(obj) == JoinLines(DumpLines(obj, 0))

(***************************************************************************)
(* display.py: JsonAnnotation, JsonEntity, Line.                           *)
(***************************************************************************)
StartTypes == {"OBJ_START", "ARR_START"}
EndTypes == {"OBJ_END", "ARR_END"}
EntityTypes == StartTypes \cup EndTypes \cup {"EMPTY"}

\* Line.json = None
NoJson ==
    [type |-> "NONE", key |-> NoSpan, value |-> NoSpan, color |-> 0, hidden |-> 0,
     pair_idx |-> None, child_count |-> 0, collapsed |-> FALSE]

\* JsonAnnotation(type, key, value)
JsonAnnotation(type, key, value) ==
    [type |-> type, key |-> key, value |-> value, color |-> ColorAnnotation,
     hidden |-> 0, pair_idx |-> None, child_count |-> 0, collapsed |-> FALSE]

\* JsonEntity(type, key, value, pair_idx)
JsonEntity(type, key, value, pair_idx) ==
    [type |-> type, key |-> key, value |-> value, color |-> ColorEntity,
     hidden |-> 0, pair_idx |-> pair_idx, child_count |-> 0, collapsed |-> FALSE]

\* JsonAnnotation.collapsible(), False for a line without annotation
Collapsible(json) == json.type \in StartTypes

HasJson(line) == line.json.type # "NONE"
HasKey(json) == json.key # NoSpan

\* Line(s)
NewLine(s) == [s |-> s, colors |-> <<>>, json |-> NoJson, row |-> None, offset |-> 0]

\* sorted(colors, key=lambda tup: tup[0]): a stable sort by offset
RECURSIVE InsertColor(_, _)
InsertColor(sorted, c) ==
    IF sorted = <<>> THEN <<c>>
    ELSE IF sorted[Len(sorted)][1] <= c[1] THEN Append(sorted, c)
    ELSE Append(InsertColor(SubSeq(sorted, 1, Len(sorted) - 1), c), sorted[Len(sorted)])

RECURSIVE SortColors(_)
SortColors(colors) ==
    IF colors = <<>> THEN <<>>
    ELSE InsertColor(SortColors(SubSeq(colors, 1, Len(colors) - 1)), colors[Len(colors)])

\* a slip in line 65: the default style is resumed after every span
add_color_span_default_after(colors, color_i, start, w) ==
    SortColors(SelectSeq(IF colors = <<>> THEN <<<<0, ColorDefault>>>> ELSE colors,
                         LAMBDA c : c[1] # start)
               \o <<<<start, color_i>>, <<start + w, ColorDefault>>>>)

\* Line.add_color_span(colors, color_i, start, w)
add_color_span(colors, color_i, start, w) ==
    LET before == SelectSeq(colors, LAMBDA c : c[1] <= start + w)
        found == before # <<>>
        prev_color == IF found THEN before[Len(before)][2] ELSE ColorDefault
        colors1 == IF found THEN colors ELSE <<<<0, prev_color>>>> \o colors
        colors2 == SelectSeq(colors1, LAMBDA c : c[1] # start)
    IN SortColors(colors2 \o <<<<start, color_i>>, <<start + w, prev_color>>>>)

(***************************************************************************)
(* The display as one value, so that a method is an operator from display  *)
(* to display and a handler is the composition of the methods it calls.    *)
(* A method that raises sets fault; the callers below pass a faulted       *)
(* display on unchanged, as an exception propagating through them does.    *)
(***************************************************************************)
Display ==
    [started |-> started, content |-> content, top_row |-> top_row,
     bottom_row |-> bottom_row, cursor_row |-> cursor_row, mode |-> mode,
     header |-> header, footer |-> footer, fault |-> fault]

\* Display.__init__ and LinesDisplay.__init__
InitDisplay ==
    [started |-> FALSE, content |-> <<>>, top_row |-> 0, bottom_row |-> 0,
     cursor_row |-> None, mode |-> "SCROLL", header |-> "", footer |-> "",
     fault |-> "none"]

Raise(d, e) == [d EXCEPT !.fault = e]

\* LinesDisplay.start
start(d) ==
    [d EXCEPT !.started = TRUE, !.top_row = 0, !.bottom_row = 0, !.content = <<>>]

\* a slip in Display.stop: started is left as it is
stop_keeps_started(d) == d

\* Display.stop
stop(d) == [d EXCEPT !.started = FALSE]

\* the while loop of LinesDisplay.draw: the value of idx when it ends
RECURSIVE DrawIdx(_, _, _)
DrawIdx(c, idx, content_space) ==
    IF idx < Len(c) /\ content_space > 0
    THEN LET line == c[idx + 1]
             skip == IF Collapsible(line.json) /\ line.json.collapsed
                     THEN line.json.pair_idx - line.row
                     ELSE 0
         IN DrawIdx(c, idx + skip + 1, content_space - 1)
    ELSE idx

\* LinesDisplay.draw: what it leaves in the display (the painting itself is
\* Display.draw_lines and Line.draw, which write to the screen only)
draw(d) ==
    IF d.fault # "none" THEN d
    ELSE LET d1 == IF ~d.started THEN start(d) ELSE d
             idx == DrawIdx(d1.content, d1.top_row, height - 1 - 1)
         IN [d1 EXCEPT !.bottom_row = Max(0, idx - 1)]

\* LinesDisplay.print, lines 34-43: the buffer after the append
print_append(d, s, flush) ==
    IF d.fault # "none" THEN d
    ELSE LET d1 == IF ~d.started THEN start(d) ELSE d
             new_lines == [i \in 1..Len(Splitlines(s)) |-> NewLine(Splitlines(s)[i])]
             merge == new_lines # <<>> /\ d1.content # <<>> /\ ~flush
             prev_line == d1.content[Len(d1.content)]
             merged == SubSeq(d1.content, 1, Len(d1.content) - 1)
                       \o <<NewLine(prev_line.s \o new_lines[1].s)>>
             c == IF merge THEN merged \o Tail(new_lines) ELSE d1.content \o new_lines
         IN [d1 EXCEPT !.content = c]

\* LinesDisplay.print
print(d, s, flush) == draw(print_append(d, s, flush))

(***************************************************************************)
(* LinesDisplay.print_json.                                                *)
(***************************************************************************)
\* re.match(r'\s*?(\".*?\")(\s?:\s?)(.*?)$', line_str): whether it matches, and
\* span(1) and span(3).  The key group ends at the first quote that a colon
\* follows, directly or after one whitespace character.
KeyEnds(s, q) ==
    /\ s[q] = "\""
    /\ \/ (q + 1 <= Len(s) /\ s[q + 1] = ":")
       \/ (q + 2 <= Len(s) /\ IsSpace(s[q + 1]) /\ s[q + 2] = ":")

key_value_re(s) ==
    LET p == LeadWs(s) + 1
        ends == {q \in (p + 1)..Len(s) : KeyEnds(s, q)}
    IN IF p <= Len(s) /\ s[p] = "\"" /\ ends # {}
       THEN LET q == CHOOSE q \in ends : \A r \in ends : q <= r
                colon == IF s[q + 1] = ":" THEN q + 1 ELSE q + 2
                v == IF colon + 1 <= Len(s) /\ IsSpace(s[colon + 1])
                     THEN colon + 2 ELSE colon + 1
            IN [ok |-> TRUE, key |-> <<p - 1, q>>, value |-> <<v - 1, Len(s)>>]
       ELSE [ok |-> FALSE, key |-> NoSpan, value |-> NoSpan]

\* tuple(x + n for x in span)
ShiftSpan(span, n) == <<span[1] + n, span[2] + n>>

\* the children counted for the array that starts at lines[entity_start] and
\* ends at line i (lines 96-104)
count_children(lines, entity_start, i) ==
    LET start_indentation == LeadWs(lines[entity_start + 1].s)
    IN Cardinality({x \in (entity_start + 1)..i :
            /\ Lstrip(lines[x].s)[1] \notin {"]", "}"}
            /\ LeadWs(lines[x].s) = start_indentation + 4})

\* the annotation of a value token (lines 85-118), before the start line of a
\* closing bracket is updated
Annotate(value, key_span, value_span, stack) ==
    IF value = <<"[">> THEN JsonEntity("ARR_START", key_span, value_span, None)
    ELSE IF value = <<"{">> THEN JsonEntity("OBJ_START", key_span, value_span, None)
    ELSE IF value = <<"]">>
         THEN JsonEntity("ARR_END", key_span, value_span, stack[Len(stack)])
    ELSE IF value = <<"}">>
         THEN JsonEntity("OBJ_END", key_span, value_span, stack[Len(stack)])
    ELSE IF value = <<"[", "]">> \/ value = <<"{", "}">>
         THEN JsonEntity("EMPTY", key_span, value_span, None)
    ELSE IF value = <<"n", "u", "l", "l">>
         THEN JsonAnnotation("NULL", key_span, value_span)
    ELSE IF value = <<"t", "r", "u", "e">> \/ value = <<"f", "a", "l", "s", "e">>
         THEN JsonAnnotation("BOOL", key_span, value_span)
    ELSE IF value[1] = "\"" /\ value[Len(value)] = "\""
         THEN JsonAnnotation("STRING", key_span, value_span)
    ELSE JsonAnnotation("NUMBER", key_span, value_span)

\* lines 70-82: the key span, the value and the value span of a line, given
\* the match of key_value_re; a trailing comma is trimmed
Token(key_span, value0, span0) ==
    IF value0[Len(value0)] = ","
    THEN [key |-> key_span, value |-> SubSeq(value0, 1, Len(value0) - 1),
          span |-> <<span0[1], span0[2] - 1>>]
    ELSE [key |-> key_span, value |-> value0, span |-> span0]

TokenAt(line_str, key_span, span0) ==
    Token(key_span, Slice(line_str, span0[1], span0[2]), span0)

TokenOf(line_str, kv_match) ==
    IF kv_match.ok
    THEN TokenAt(line_str, kv_match.key, kv_match.value)
    ELSE TokenAt(line_str, NoSpan,
                 <<Len(line_str) - Len(Lstrip(line_str)), Max(0, RstripLen(line_str))>>)

\* lines 87-108: what a closing bracket at line i writes to its start line
CloseEntity(lines, entity_start, i, value, num_existing_lines) ==
    [lines EXCEPT ![entity_start + 1].json =
        [@ EXCEPT !.pair_idx = i + num_existing_lines,
                  !.child_count = IF value = <<"]">>
                                  THEN count_children(lines, entity_start, i)
                                  ELSE @]]

\* lines 124-130: the annotation of a line that is merged onto a line old_s
Shifted(annotation, old_s) ==
    [annotation EXCEPT
        !.key = IF HasKey(annotation) THEN ShiftSpan(@, Len(old_s)) ELSE @,
        !.value = ShiftSpan(@, Len(old_s))]

\* lines 134-138: JSON coloring
KeyColored(json, colors) ==
    IF HasKey(json)
    THEN add_color_span(colors, ColorKey, json.key[1], json.key[2] - json.key[1])
    ELSE colors

Colored(s, json) ==
    [s |-> s, json |-> json, row |-> None, offset |-> 0,
     colors |-> KeyColored(json, add_color_span(<<>>, json.color, json.value[1],
                                                json.value[2] - json.value[1]))]

\* lines 85-140 for a line with a value token tok.  st holds the loop's
\* variables: lines, stack, self.content, and fault.
print_json_token(st, line_str, i, flush, num_existing_lines, tok) ==
    LET closing == tok.value = <<"]">> \/ tok.value = <<"}">>
        opening == tok.value = <<"[">> \/ tok.value = <<"{">>
        merge == i = 0 /\ ~flush /\ st.content # <<>>
        old_line == st.content[Len(st.content)]
    IN IF closing /\ st.stack = <<>>
       THEN [st EXCEPT !.fault = "IndexError"]    \* stack.pop() on an empty list
       ELSE [st EXCEPT
               !.lines =
                  Append(IF closing
                         THEN CloseEntity(@, st.stack[Len(st.stack)], i, tok.value,
                                          num_existing_lines)
                         ELSE @,
                         IF merge
                         THEN Colored(old_line.s \o line_str,
                                      Shifted(Annotate(tok.value, tok.key, tok.span,
                                                       st.stack), old_line.s))
                         ELSE Colored(line_str,
                                      Annotate(tok.value, tok.key, tok.span, st.stack))),
               !.stack = IF opening THEN Append(@, i)
                         ELSE IF closing THEN SubSeq(@, 1, Len(@) - 1)
                         ELSE @,
               !.content = IF merge THEN SubSeq(@, 1, Len(@) - 1) ELSE @]

\* one iteration of the for loop of print_json (lines 56-140) on line i
print_json_line(st, line_str, i, flush, num_existing_lines) ==
    IF Len(Lstrip(line_str)) = 0
    THEN [st EXCEPT !.lines = Append(@, NewLine(line_str))]
    ELSE print_json_token(st, line_str, i, flush, num_existing_lines,
                          TokenOf(line_str, key_value_re(line_str)))

RECURSIVE print_json_loop(_, _, _, _, _)
print_json_loop(st, strs, i, flush, num_existing_lines) ==
    IF i >= Len(strs) \/ st.fault # "none" THEN st
    ELSE print_json_loop(
            print_json_line(st, strs[i + 1], i, flush, num_existing_lines),
            strs, i + 1, flush, num_existing_lines)

\* a slip in lines 143-144: the rows are left as the lines were built
SetRowsSkipped(c) == c

\* lines 143-144: line.row = idx for every line of the buffer
SetRows(c) == [idx \in 1..Len(c) |-> [c[idx] EXCEPT !.row = idx - 1]]

\* LinesDisplay.print_json, lines 49-144: the buffer after the append
print_json_append(d, obj, flush) ==
    IF d.fault # "none" THEN d
    ELSE LET as_str == JsonDumps(obj)
             st == print_json_loop(
                      [lines |-> <<>>, stack |-> <<>>, content |-> d.content,
                       fault |-> "none"],
                      Splitlines(as_str), 0, flush, Len(d.content))
         IN IF st.fault # "none"
            THEN [d EXCEPT !.content = st.content, !.fault = st.fault]
            ELSE [d EXCEPT !.content = SetRows(st.content \o st.lines)]

\* LinesDisplay.print_json
print_json(d, obj, flush) == draw(print_json_append(d, obj, flush))

(***************************************************************************)
(* Collapsing, scrolling and the two navigation modes.                     *)
(***************************************************************************)
\* a slip in line 265: the same step for collapsing and for expanding
HiddenDeltaOneWay(collapsed) == -1

\* line 265: what set_collapsed adds to the hidden counters
HiddenDelta(collapsed) == IF collapsed THEN -1 ELSE 1

\* LinesDisplay.set_collapsed, lines 255-265: the buffer before the redraw
set_collapsed_update(d, line_num, collapsed) ==
    IF d.fault # "none" THEN d
    ELSE IF line_num >= Len(d.content) THEN Raise(d, "IndexError")
    ELSE LET line == d.content[line_num + 1]
             last_x == Min(line.json.pair_idx, Len(d.content) - 1)
             c1 == [x \in 1..Len(d.content) |->
                      IF x - 1 = line_num
                      THEN [d.content[x] EXCEPT !.json.collapsed = collapsed]
                      ELSE IF /\ x - 1 \in (line.row + 1)..last_x
                              /\ HasJson(d.content[x])
                      THEN [d.content[x] EXCEPT
                               !.json.hidden = @ + HiddenDelta(collapsed)]
                      ELSE d.content[x]]
         IN IF ~HasJson(line) \/ ~Collapsible(line.json) THEN d
            ELSE IF line.json.collapsed = collapsed THEN d
            ELSE IF line.json.pair_idx > Len(d.content) - 1
                 THEN Raise([d EXCEPT !.content = c1], "IndexError")
            ELSE [d EXCEPT !.content = c1]

\* whether set_collapsed returns early (lines 256-259), without a redraw
set_collapsed_returns(d, line_num, collapsed) ==
    LET line == d.content[line_num + 1]
    IN \/ ~HasJson(line)
       \/ ~Collapsible(line.json)
       \/ line.json.collapsed = collapsed

\* LinesDisplay.set_collapsed
set_collapsed(d, line_num, collapsed) ==
    IF d.fault # "none" THEN d
    ELSE IF line_num >= Len(d.content) THEN Raise(d, "IndexError")
    ELSE IF set_collapsed_returns(d, line_num, collapsed) THEN d
    ELSE draw(set_collapsed_update(d, line_num, collapsed))

\* a slip in lines 195 and 199: the test on hidden is left out
NotHiddenUntested(line) == TRUE

\* the test of scroll_screen_up / scroll_screen_down on a line
NotHidden(line) == ~HasJson(line) \/ line.json.hidden = 0

\* a slip in lines 203 and 219: the test without "not json.hidden"
JsonTargetHiddenToo(line) ==
    /\ HasJson(line)
    /\ (HasKey(line.json) \/ Collapsible(line.json))

\* the test of scroll_json_up / scroll_json_down on a line
JsonTarget(line) ==
    /\ HasJson(line)
    /\ (HasKey(line.json) \/ Collapsible(line.json))
    /\ line.json.hidden = 0

\* the test of cycle_mode on a line (line 233)
CycleTarget(line) == HasJson(line) /\ (HasKey(line.json) \/ Collapsible(line.json))

\* next(i for i in range(from - 1, -1, -1) if P(content[i]), default)
PrevRow(c, from, P(_), default) ==
    LET rows == {i \in 0..(from - 1) : P(c[i + 1])}
    IN IF rows = {} THEN default ELSE CHOOSE i \in rows : \A j \in rows : j <= i

\* next(i for i in range(from + 1, len(content)) if P(content[i]), default)
NextRow(c, from, P(_), default) ==
    LET rows == {i \in (from + 1)..(Len(c) - 1) : P(c[i + 1])}
    IN IF rows = {} THEN default ELSE CHOOSE i \in rows : \A j \in rows : i <= j

\* LinesDisplay.scroll_screen_up
RECURSIVE scroll_screen_up(_, _)
scroll_screen_up(d, n) ==
    IF d.fault # "none" \/ n = 0 THEN d
    ELSE IF d.top_row - 1 >= Len(d.content) THEN Raise(d, "IndexError")
    ELSE scroll_screen_up(
            [d EXCEPT !.top_row = PrevRow(d.content, d.top_row, NotHidden, d.top_row)],
            n - 1)

\* LinesDisplay.scroll_screen_down
RECURSIVE scroll_screen_down(_, _)
scroll_screen_down(d, n) ==
    IF d.fault # "none" \/ n = 0 THEN d
    ELSE scroll_screen_down(
            [d EXCEPT !.top_row = NextRow(d.content, d.top_row, NotHidden, d.top_row)],
            n - 1)

\* LinesDisplay.scroll_json_up
scroll_json_up(d) ==
    IF d.fault # "none" THEN d
    ELSE IF d.cursor_row - 1 >= Len(d.content) THEN Raise(d, "IndexError")
    ELSE LET prev_row == PrevRow(d.content, d.cursor_row, JsonTarget, None)
             d1 == IF prev_row # None THEN [d EXCEPT !.cursor_row = prev_row]
                   ELSE scroll_screen_up(d, 1)
         IN IF d1.fault = "none" /\ d1.cursor_row < d1.top_row
            THEN [d1 EXCEPT !.top_row = d1.cursor_row]
            ELSE d1

\* lines 226-228: while cursor_row > bottom_row: scroll_screen_down(); draw().
\* An iteration that leaves the display as it was is repeated for ever:
\* fault "hang".
RECURSIVE catch_up(_)
catch_up(d) ==
    IF d.fault # "none" \/ ~(d.cursor_row > d.bottom_row) THEN d
    ELSE LET d1 == draw(scroll_screen_down(d, 1))
         IN IF d1 = d THEN Raise(d1, "hang") ELSE catch_up(d1)

\* LinesDisplay.scroll_json_down
scroll_json_down(d) ==
    IF d.fault # "none" THEN d
    ELSE LET next_row == NextRow(d.content, d.cursor_row, JsonTarget, None)
             d1 == IF next_row # None THEN [d EXCEPT !.cursor_row = next_row]
                   ELSE scroll_screen_down(d, 1)
         IN catch_up(d1)

\* LinesDisplay.set_footer(s) and set_header(s) with flush=True; the text is
\* kept by name
set_footer(d, s) == [d EXCEPT !.footer = s]
set_header(d, s) == [d EXCEPT !.header = s]

\* LinesDisplay.set_footer_for_mode
set_footer_for_mode(d) == set_footer(d, d.mode)

\* LinesDisplay.cycle_mode
cycle_mode(d) ==
    IF d.fault # "none" THEN d
    ELSE IF d.mode = "SCROLL"
    THEN IF \/ d.cursor_row = None
            \/ d.cursor_row < d.top_row
            \/ d.cursor_row > d.bottom_row
         THEN LET row == NextRow(d.content, d.top_row - 1, CycleTarget, None)
              IN IF row = None THEN [d EXCEPT !.cursor_row = None]
                 ELSE draw(set_footer_for_mode(
                         [d EXCEPT !.cursor_row = row, !.mode = "JSON"]))
         ELSE draw(set_footer_for_mode([d EXCEPT !.mode = "JSON"]))
    ELSE draw(set_footer_for_mode([d EXCEPT !.mode = "SCROLL"]))

\* a slip in line 132: the offset grows without the cap
increase_offset_uncapped(line, scr_w) ==
    IF ~HasJson(line) THEN line
    ELSE [line EXCEPT !.offset = @ + OffsetStep]

\* Line.increase_offset(scr_w)
increase_offset(line, scr_w) ==
    IF ~HasJson(line) THEN line
    ELSE [line EXCEPT !.offset =
             Min(Max(0, Len(line.s) - scr_w + OffsetMargin), @ + OffsetStep)]

\* Line.decrease_offset()
decrease_offset(line) == [line EXCEPT !.offset = Max(0, @ - OffsetStep)]

(***************************************************************************)
(* Line.draw(scr, row, w, cursor_span).  The state of a call is the Line,  *)
(* the local s, the local colors, and whether the local colors is still    *)
(* the list object self.colors (own): an assignment to an element of       *)
(* colors while own holds changes the Line.                                *)
(***************************************************************************)
\* the character of '[…]' between the brackets
Ellipsis == "_"

\* '[…]'
Marker == <<"[", Ellipsis, "]">>

\* str(n) for 0 <= n < 100
Digit(n) == <<<<"0", "1", "2", "3", "4", "5", "6", "7", "8", "9">>[n + 1]>>
Str(n) == IF n < 10 THEN Digit(n) ELSE Digit(n \div 10) \o Digit(n % 10)

\* '[ … count: {0} ]'.format(child_count)
CollapsedArray(child_count) ==
    <<"[", " ", Ellipsis, " ", "c", "o", "u", "n", "t", ":", " ">>
    \o Str(child_count) \o <<" ", "]">>

\* '{ … }'
CollapsedObject == <<"{", " ", Ellipsis, " ", "}">>

\* '[ count: {0}'.format(child_count)
CountedArray(child_count) ==
    <<"[", " ", "c", "o", "u", "n", "t", ":", " ">> \o Str(child_count)

\* lines 76-79: colors = self.colors, [(0, 1)] if it is empty; s = self.s
DrawStart(line) ==
    [line |-> line, s |-> line.s,
     colors |-> IF line.colors = <<>> THEN <<<<0, ColorDefault>>>> ELSE line.colors,
     own |-> line.colors # <<>>]

\* a slip in add_color_span: the span is put into the list it was given
RecolorInPlace(st, color_i, at, w) ==
    [st EXCEPT !.colors = add_color_span(st.colors, color_i, at, w),
               !.line.colors = IF st.own
                               THEN add_color_span(st.colors, color_i, at, w)
                               ELSE @]

\* colors = self.add_color_span(colors, color_i, at, w): a new list
Recolor(st, color_i, at, w) ==
    [st EXCEPT !.colors = add_color_span(st.colors, color_i, at, w), !.own = FALSE]

\* lines 89-91, with s[:value[0]] as prefix
DrawCollapsed(st, prefix, suffix) ==
    Recolor(Recolor([st EXCEPT !.s = prefix \o suffix],
                    ColorCount, Len(prefix) + 2, Len(suffix) - 4),
            st.line.json.color, Len(prefix) + Len(suffix) - 1, 1)

\* lines 93-95
DrawCounted(st, prefix, suffix) ==
    Recolor([st EXCEPT !.s = prefix \o suffix],
            ColorCount, Len(prefix) + 1, Len(suffix) - 1)

\* lines 82-95: what is shown of a container start
DrawEntity(st) ==
    IF ~Collapsible(st.line.json) THEN st
    ELSE IF st.line.json.collapsed
    THEN DrawCollapsed(st, Slice(st.s, 0, st.line.json.value[1]),
                       IF st.line.json.type = "ARR_START"
                       THEN CollapsedArray(st.line.json.child_count)
                       ELSE CollapsedObject)
    ELSE IF st.line.json.type = "ARR_START"
    THEN DrawCounted(st, Slice(st.s, 0, st.line.json.value[1]),
                     CountedArray(st.line.json.child_count))
    ELSE st

\* lines 103-105: colors[i] = (max(len(prefix), color[0] - offset) + 3, color[1])
\* for the colors after the prefix, assigned to the elements of the list
ShiftColors(st, n, offset) ==
    LET shifted == [i \in 1..Len(st.colors) |->
                      IF st.colors[i][1] > n
                      THEN <<Max(n, st.colors[i][1] - offset) + 3, st.colors[i][2]>>
                      ELSE st.colors[i]]
    IN [st EXCEPT !.colors = shifted,
                  !.line.colors = IF st.own THEN shifted ELSE @]

\* lines 99-105, with s[:value[0]+1] as prefix
DrawElided(st, prefix, offset) ==
    ShiftColors(
        Recolor([st EXCEPT !.s = prefix \o Marker
                                 \o Slice(st.s, Len(prefix) + offset, Len(st.s))],
                ColorMarker, Len(prefix), 3),
        Len(prefix), offset)

\* lines 98-105: a string line scrolled sideways
DrawOffset(st) ==
    IF st.line.json.type = "STRING" /\ st.line.offset # 0
    THEN DrawElided(st, Slice(st.s, 0, st.line.json.value[1] + 1), st.line.offset)
    ELSE st

\* a slip in line 109: the text is cut at w - 2
TruncatedLong(s, w) == Slice(s, 0, w - 2) \o Marker

\* line 109: s[:w-3] + '[…]'
Truncated(s, w) == Slice(s, 0, w - 3) \o Marker

\* line 110
DrawMarked(st) == Recolor(st, ColorMarker, Len(st.s) - 3, 3)

\* lines 108-110
DrawTruncate(st, w) ==
    IF Len(st.s) > w THEN DrawMarked([st EXCEPT !.s = Truncated(st.s, w)]) ELSE st

\* line 114
DrawPad(st, w) == [st EXCEPT !.s = @ \o Spaces(w - Len(@))]

\* lines 116-117
DrawCursor(st, cursor_span) ==
    IF cursor_span # NoSpan
    THEN Recolor(st, ColorCursor, cursor_span[1], cursor_span[2] - cursor_span[1])
    ELSE st

\* scr.addstr(row, col, text, color_pair(color_i)) on the cells of the row
addstr(cells, col, text, color_i) ==
    [i \in 1..Max(Len(cells), col + Len(text)) |->
        IF i > col /\ i <= col + Len(text) THEN <<text[i - col], color_i>>
        ELSE IF i <= Len(cells) THEN cells[i]
        ELSE <<"", 0>>]

\* lines 121-127: the loop over colors[1:], then the rest of the line
RECURSIVE PaintFrom(_, _, _, _, _, _)
PaintFrom(cells, s, rest, col, color_i, w) ==
    IF rest = <<>>
    THEN IF col < w THEN addstr(cells, col, Slice(s, col, Len(s)), color_i) ELSE cells
    ELSE PaintFrom(IF Min(rest[1][1], w) > col
                   THEN addstr(cells, col, Slice(s, col, Min(rest[1][1], w)), color_i)
                   ELSE cells,
                   s, Tail(rest), Min(rest[1][1], w), rest[1][2], w)

\* lines 120-127
Paint(st, w) ==
    PaintFrom(<<>>, st.s, Tail(st.colors), st.colors[1][1], st.colors[1][2], w)

\* lines 76-117: the call before it writes to the screen
Drawn(line, w, cursor_span) ==
    DrawCursor(DrawPad(DrawTruncate(DrawOffset(DrawEntity(DrawStart(line))), w), w),
               cursor_span)

\* Display.draw_lines, lines 183-188: the span of the cursor on a line
CursorSpan(line) ==
    IF HasKey(line.json) THEN line.json.key
    ELSE IF Collapsible(line.json) THEN line.json.value
    ELSE NoSpan

(***************************************************************************)
(* The specifications.  Every action sets all variables from the display   *)
(* its handler leaves.                                                     *)
(***************************************************************************)
Set(d) ==
    /\ started' = d.started
    /\ content' = d.content
    /\ top_row' = d.top_row
    /\ bottom_row' = d.bottom_row
    /\ cursor_row' = d.cursor_row
    /\ mode' = d.mode
    /\ header' = d.header
    /\ footer' = d.footer
    /\ fault' = d.fault

\* the threads: main.py's, the Socket.IO client's, the ticker's Timer threads
Threads == {"main", "sio", "tick"}

\* the locals of LinesDisplay.print: whether the merge branch is taken,
\* prev_line.s, the list built on the right of line 42, and the list object
\* that line 43 has loaded from self.content
NoLocals == [merged |-> FALSE, prev |-> <<>>, base |-> <<>>, obj |-> 0]

\* build_request returned None, or no request was built yet
NoRequest == [kind |-> "none", desc |-> <<>>, method |-> ""]

\* the program after display = LinesDisplay() (main.py, line 222)
InitProgram ==
    /\ started = InitDisplay.started
    /\ content = InitDisplay.content
    /\ top_row = InitDisplay.top_row
    /\ bottom_row = InitDisplay.bottom_row
    /\ cursor_row = InitDisplay.cursor_row
    /\ mode = InitDisplay.mode
    /\ header = InitDisplay.header
    /\ footer = InitDisplay.footer
    /\ fault = InitDisplay.fault
    /\ calls = 0
    /\ pc = "menu"
    /\ sock = "off"
    /\ mutex = "free"
    /\ todo = [t \in Threads |-> <<>>]
    /\ running = FALSE
    /\ timer = 0
    /\ timers = <<>>
    /\ stop_pc = "idle"
    /\ stop_t = 0
    /\ late = 0
    /\ lists = <<>>
    /\ ref = 0
    /\ held = [t \in Threads |-> NoLocals]
    /\ requests_dicts = <<>>
    /\ menu_list = <<>>
    /\ selection = 0
    /\ menu_started = FALSE
    /\ selected = None
    /\ built = NoRequest
    /\ menu_pc = "start"

\* no Line is being drawn
NoLine ==
    /\ ln = NewLine(<<>>)
    /\ width = Width
    /\ painted = <<>>

Init == InitProgram /\ height = Height /\ breakpoints = <<>> /\ NoLine

\* the texts handed to print: a word, a line break before a word (the event
\* handlers' messages), an indented word, and the empty text
PrintInputs == {<<"x">>, <<"\n", "x">>, <<" ", "x">>, <<>>}

(***************************************************************************)
(* SpecApi: the display's interface called in any order by one thread.     *)
(***************************************************************************)
\* the bounds on an append of the lines strs
Fits(strs) ==
    /\ calls < MaxCalls
    /\ Len(content) + Len(strs) <= MaxLines

ApiPrint(s, flush) ==
    /\ fault = "none"
    /\ Fits(Splitlines(s))
    /\ Set(print(Display, s, flush))
    /\ calls' = calls + 1
    /\ UNCHANGED <<mnu, height, lin, heap, prog, conc, tmr>>

ApiPrintJson(obj, flush) ==
    /\ fault = "none"
    /\ Fits(Splitlines(JsonDumps(obj)))
    /\ Set(print_json(Display, obj, flush))
    /\ calls' = calls + 1
    /\ UNCHANGED <<mnu, height, lin, heap, prog, conc, tmr>>

ApiSetCollapsed(line_num, collapsed) ==
    /\ fault = "none"
    /\ Set(set_collapsed(Display, line_num, collapsed))
    /\ UNCHANGED <<mnu, height, lin, heap, calls, prog, conc, tmr>>

NextApi ==
    \/ \E s \in PrintInputs, flush \in BOOLEAN : ApiPrint(s, flush)
    \/ \E obj \in JsonValues, flush \in BOOLEAN : ApiPrintJson(obj, flush)
    \/ \E line_num \in 0..(Len(content) - 1), collapsed \in BOOLEAN :
          ApiSetCollapsed(line_num, collapsed)

SpecApi == Init /\ [][NextApi]_vars

(***************************************************************************)
(* SpecQuoted: print and print_json called in any order, the values being  *)
(* dicts whose keys hold a quote followed by a colon.                      *)
(***************************************************************************)
\* the non-empty dicts, each key replaced by the key with the quote
QuotedDicts ==
    {[t |-> "objq", items |-> v.items] : v \in {x \in JsonValues : x.t = "obj" /\ x.items # <<>>}}

NextQuoted ==
    \/ \E s \in PrintInputs, flush \in BOOLEAN : ApiPrint(s, flush)
    \/ \E obj \in QuotedDicts, flush \in BOOLEAN : ApiPrintJson(obj, flush)

SpecQuoted == Init /\ [][NextQuoted]_vars

(***************************************************************************)
(* SpecView: print_json and set_collapsed and, in any order with them, the *)
(* calls that move the window and switch the mode.                         *)
(***************************************************************************)
ApiScrollScreenDown ==
    /\ fault = "none" /\ started
    /\ Set(scroll_screen_down(Display, 1))
    /\ UNCHANGED <<mnu, height, lin, heap, calls, prog, conc, tmr>>

ApiCycleMode ==
    /\ fault = "none" /\ started
    /\ Set(cycle_mode(Display))
    /\ UNCHANGED <<mnu, height, lin, heap, calls, prog, conc, tmr>>

NextView ==
    \/ \E obj \in JsonValues : ApiPrintJson(obj, TRUE)
    \/ \E line_num \in 0..(Len(content) - 1), collapsed \in BOOLEAN :
          ApiSetCollapsed(line_num, collapsed)
    \/ ApiScrollScreenDown
    \/ ApiCycleMode

SpecView == Init /\ [][NextView]_vars

(***************************************************************************)
(* SpecBrowse: the main thread of main.py.  An API request is fired from   *)
(* the menu, the user browses the result with the keys, and returns to the *)
(* menu.  The texts the program prints are written by their first letter;  *)
(* their line breaks are kept.                                             *)
(***************************************************************************)
NoValue == [t |-> "none", items |-> <<>>]

\* bool(v) of a JSON value as fire tests it
Truthy(v) == v.t \in {"num", "str"} \/ (v.t \in {"arr", "obj"} /\ v.items # <<>>)

\* the values of at most n nodes
ValuesUpTo(n) == UNION {TreesOfSize(k) : k \in 1..n}

\* whether every scalar in v is of kind t
RECURSIVE ScalarsAre(_, _)
ScalarsAre(v, t) ==
    IF v.t \in {"arr", "obj"}
    THEN \A i \in 1..Len(v.items) : ScalarsAre(v.items[i], t)
    ELSE v.t = t

\* the non-empty dicts of at most n nodes
Dicts(n) == {v \in ValuesUpTo(n) : v.t = "obj" /\ v.items # <<>>}

\* request headers: absent, or a dict of strings
HeaderInputs == {NoValue} \cup {v \in Dicts(MaxPayload) : ScalarsAre(v, "str")}

\* request bodies: absent, or a dict of numbers
BodyInputs == {NoValue} \cup {v \in Dicts(MaxPayload) : ScalarsAre(v, "num")}

\* response bodies: a string, or any JSON value of numbers
ResponseInputs == {Scalar("str")} \cup {v \in JsonValues : ScalarsAre(v, "num")}

\* ApiRequest.fire up to the blocking request (lines 126-140)
fire_send(d, headers, body) ==
    LET d1 == print(set_footer(set_header(d, "fire"), ""), <<"\n", "S", "\n">>, TRUE)
        d2 == IF Truthy(headers)
              THEN print_json(print(d1, <<"h", " ", "=", " ">>, TRUE), headers, FALSE)
              ELSE d1
        d3 == IF Truthy(body)
              THEN print_json(print(d2, <<"b", " ", "=", " ">>, TRUE), body, FALSE)
              ELSE d2
    IN print(d3, <<"\n", "\n">>, TRUE)

\* ApiRequest.fire after the request has returned (lines 161-168)
fire_receive(d, response) ==
    LET d1 == print(d, <<"\n", "R", "\n">>, TRUE)
    IN IF Truthy(response) THEN print_json(d1, response, TRUE)
       ELSE print(d1, JsonDumps(response), TRUE)

\* LinesDisplay.display_and_browse up to its loop (lines 270-275)
browse_enter(d) ==
    LET d1 == IF ~d.started THEN start(d) ELSE d
    IN set_footer_for_mode([set_header(d1, "browse") EXCEPT !.mode = "SCROLL"])

\* the branches of the loop for the keys (lines 283-316)
key_up(d) == IF d.mode = "JSON" THEN scroll_json_up(d) ELSE scroll_screen_up(d, 1)

key_down(d) == IF d.mode = "JSON" THEN scroll_json_down(d) ELSE scroll_screen_down(d, 1)

key_left(d) ==
    IF d.mode # "JSON" THEN scroll_screen_up(d, PageSize)
    ELSE IF d.cursor_row >= Len(d.content) THEN Raise(d, "IndexError")
    ELSE LET line == d.content[d.cursor_row + 1]
         IN IF line.json.type = "STRING"
            THEN [d EXCEPT !.content[d.cursor_row + 1] = decrease_offset(line)]
            ELSE set_collapsed(d, d.cursor_row, TRUE)

key_right(d) ==
    IF d.mode # "JSON" THEN scroll_screen_down(d, PageSize)
    ELSE IF d.cursor_row >= Len(d.content) THEN Raise(d, "IndexError")
    ELSE LET line == d.content[d.cursor_row + 1]
         IN IF line.json.type = "STRING"
            THEN [d EXCEPT !.content[d.cursor_row + 1] = increase_offset(line, Width)]
            ELSE set_collapsed(d, d.cursor_row, FALSE)

\* main.py, line 245: ApiRequest.fire prints the request and sends it
FireSend(headers, body) ==
    /\ fault = "none" /\ pc = "menu" /\ calls < MaxRequests
    /\ Set(fire_send(Display, headers, body))
    /\ pc' = "wait"
    /\ calls' = calls + 1
    /\ UNCHANGED <<mnu, height, lin, heap, sock, conc, tmr>>

\* the response arrives and fire prints it
FireReceive(response) ==
    /\ fault = "none" /\ pc = "wait"
    /\ Len(content) + Len(Splitlines(JsonDumps(response))) + 2 <= MaxBuffer
    /\ Set(fire_receive(Display, response))
    /\ pc' = "fired"
    /\ UNCHANGED <<mnu, height, lin, heap, calls, sock, conc, tmr>>

\* main.py, line 254: display_and_browse is entered and draws
BrowseEnter ==
    /\ fault = "none" /\ pc = "fired"
    /\ Set(draw(browse_enter(Display)))
    /\ pc' = "browse"
    /\ UNCHANGED <<mnu, height, lin, heap, calls, sock, conc, tmr>>

\* one turn of the loop: the branch of the key, then the draw of the next turn
Key(d) ==
    /\ fault = "none" /\ pc = "browse"
    /\ Set(draw(d))
    /\ UNCHANGED <<mnu, height, lin, heap, calls, prog, conc, tmr>>

KeyUp == Key(key_up(Display))
KeyDown == Key(key_down(Display))
KeyLeft == Key(key_left(Display))
KeyRight == Key(key_right(Display))
KeySpace == Key(cycle_mode(Display))
\* any other key: no branch of the loop is taken
KeyOther == Key(Display)

\* ESC, q, ENTER or a KeyboardInterrupt: the loop ends and the display stops
KeyExit ==
    /\ fault = "none" /\ pc = "browse"
    /\ Set(stop(Display))
    /\ pc' = "menu"
    /\ UNCHANGED <<mnu, height, lin, heap, calls, sock, conc, tmr>>

NextBrowse ==
    \/ \E headers \in HeaderInputs, body \in BodyInputs : FireSend(headers, body)
    \/ \E response \in ResponseInputs : FireReceive(response)
    \/ BrowseEnter
    \/ KeyUp
    \/ KeyDown
    \/ KeyLeft
    \/ KeyRight
    \/ KeySpace
    \/ KeyOther
    \/ KeyExit

SpecBrowse == Init /\ [][NextBrowse]_vars

(***************************************************************************)
(* SpecScreens: a request without headers and body, browsed on a terminal  *)
(* of any height up to Height.                                             *)
(***************************************************************************)
InitScreens ==
    InitProgram /\ height \in MinHeight..Height /\ breakpoints = <<>> /\ NoLine

NextScreens ==
    \/ FireSend(NoValue, NoValue)
    \/ \E response \in ResponseInputs : FireReceive(response)
    \/ BrowseEnter
    \/ KeyUp
    \/ KeyDown
    \/ KeyLeft
    \/ KeyRight
    \/ KeySpace
    \/ KeyExit

SpecScreens == InitScreens /\ [][NextScreens]_vars

(***************************************************************************)
(* SpecSessions: requests without headers and body made one after the      *)
(* other from the menu, each browsed until an exit key.                    *)
(***************************************************************************)
\* main.py, line 245, on a later turn of the main loop as on the first
SessionSend ==
    /\ fault = "none" /\ pc = "menu" /\ calls < MaxSessions
    /\ Set(fire_send(Display, NoValue, NoValue))
    /\ pc' = "wait"
    /\ calls' = calls + 1
    /\ UNCHANGED <<mnu, height, lin, heap, sock, conc, tmr>>

NextSessions ==
    \/ SessionSend
    \/ \E response \in ResponseInputs : FireReceive(response)
    \/ BrowseEnter
    \/ KeyUp
    \/ KeyDown
    \/ KeyLeft
    \/ KeyRight
    \/ KeySpace
    \/ KeyExit

SpecSessions == Init /\ [][NextSessions]_vars

(***************************************************************************)
(* SpecTimer: the RepeatingTimer that fire makes (api_request.py, line     *)
(* 147) and stops (line 158), statement by statement.  Every               *)
(* threading.Timer is a thread: it waits for its interval, and if it has   *)
(* not been cancelled by then, it runs RepeatingTimer._run.  timers[k] is  *)
(* where Timer k is: "new" (made, not started), "waiting", "cancelled",    *)
(* at a statement of _run ("run_clear", "run_test", "run_set", "run_make", *)
(* "run_start", "run_call"), or "done".                                    *)
(***************************************************************************)
TimerIds == 1..Len(timers)

\* whether some Timer thread is inside _run
InRun(k) ==
    timers[k] \in {"run_clear", "run_test", "run_set", "run_make", "run_start", "run_call"}

\* threading.Timer.cancel on a Timer in state s: it has an effect only before
\* the Timer's function is called
cancel(s) == IF s \in {"new", "waiting"} THEN "cancelled" ELSE s

\* threading.Timer.start on a Timer in state s
timer_start(s) == IF s = "new" THEN "waiting" ELSE s

\* RepeatingTimer.__init__ with auto_start, which calls start (lines 8-13, 20-24)
Construct ==
    /\ timers = <<>> /\ stop_pc = "idle"
    /\ running' = TRUE
    /\ timers' = <<"waiting">>
    /\ timer' = 1
    /\ UNCHANGED <<mnu, height, lin, heap, disp, calls, prog, conc, stop_pc, stop_t, late>>

\* threading.Timer.run: the interval has passed and the Timer was not cancelled
Expire(k) ==
    /\ timers[k] = "waiting"
    /\ timers' = [timers EXCEPT ![k] = "run_clear"]
    /\ UNCHANGED <<mnu, height, lin, heap, disp, calls, prog, conc, running, timer, stop_pc, stop_t, late>>

\* _run, line 16: self.running = False
RunClear(k) ==
    /\ timers[k] = "run_clear"
    /\ running' = FALSE
    /\ timers' = [timers EXCEPT ![k] = "run_test"]
    /\ UNCHANGED <<mnu, height, lin, heap, disp, calls, prog, conc, timer, stop_pc, stop_t, late>>

\* _run, line 17, start, line 21: if not self.running
RunTest(k) ==
    /\ timers[k] = "run_test"
    /\ timers' = [timers EXCEPT ![k] = IF ~running THEN "run_set" ELSE "run_call"]
    /\ UNCHANGED <<mnu, height, lin, heap, disp, calls, prog, conc, running, timer, stop_pc, stop_t, late>>

\* start, line 22: self.running = True
RunSet(k) ==
    /\ timers[k] = "run_set"
    /\ running' = TRUE
    /\ timers' = [timers EXCEPT ![k] = "run_make"]
    /\ UNCHANGED <<mnu, height, lin, heap, disp, calls, prog, conc, timer, stop_pc, stop_t, late>>

\* start, line 23: self._timer = Timer(self.interval, self._run)
RunMake(k) ==
    /\ timers[k] = "run_make"
    /\ Len(timers) < MaxTimers
    /\ timers' = Append([timers EXCEPT ![k] = "run_start"], "new")
    /\ timer' = Len(timers) + 1
    /\ UNCHANGED <<mnu, height, lin, heap, disp, calls, prog, conc, running, stop_pc, stop_t, late>>

\* start, line 24: self._timer.start()
RunStart(k) ==
    /\ timers[k] = "run_start"
    /\ timers' = [timers EXCEPT ![k] = "run_call", ![timer] = timer_start(@)]
    /\ UNCHANGED <<mnu, height, lin, heap, disp, calls, prog, conc, running, timer, stop_pc, stop_t, late>>

\* _run, line 18: self.callback()
RunCall(k) ==
    /\ timers[k] = "run_call"
    /\ timers' = [timers EXCEPT ![k] = "done"]
    /\ late' = IF stop_pc = "returned" THEN late + 1 ELSE late
    /\ UNCHANGED <<mnu, height, lin, heap, disp, calls, prog, conc, running, timer, stop_pc, stop_t>>

\* fire, line 158, calls stop; stop, line 27: self.running = False
StopClear ==
    /\ timers # <<>> /\ stop_pc = "idle"
    /\ running' = FALSE
    /\ stop_pc' = "test"
    /\ UNCHANGED <<mnu, height, lin, heap, disp, calls, prog, conc, timer, timers, stop_t, late>>

\* stop, line 28: if self._timer
StopTest ==
    /\ stop_pc = "test"
    /\ stop_pc' = IF timer # 0 THEN "load" ELSE "returned"
    /\ UNCHANGED <<mnu, height, lin, heap, disp, calls, prog, conc, running, timer, timers, stop_t, late>>

\* stop, line 29: self._timer is read
StopLoad ==
    /\ stop_pc = "load"
    /\ stop_t' = timer
    /\ stop_pc' = "cancel"
    /\ UNCHANGED <<mnu, height, lin, heap, disp, calls, prog, conc, running, timer, timers, late>>

\* stop, line 29: cancel() of the Timer that was read; stop returns
StopCancel ==
    /\ stop_pc = "cancel"
    /\ timers' = [timers EXCEPT ![stop_t] = cancel(@)]
    /\ stop_pc' = "returned"
    /\ UNCHANGED <<mnu, height, lin, heap, disp, calls, prog, conc, running, timer, stop_t, late>>

NextTimer ==
    \/ Construct
    \/ \E k \in TimerIds : Expire(k)
    \/ \E k \in TimerIds : RunClear(k)
    \/ \E k \in TimerIds : RunTest(k)
    \/ \E k \in TimerIds : RunSet(k)
    \/ \E k \in TimerIds : RunMake(k)
    \/ \E k \in TimerIds : RunStart(k)
    \/ \E k \in TimerIds : RunCall(k)
    \/ StopClear
    \/ StopTest
    \/ StopLoad
    \/ StopCancel

SpecTimer == Init /\ [][NextTimer]_vars

(***************************************************************************)
(* SpecRepeat: SpecTimer, and the thread that owns the RepeatingTimer      *)
(* calls its start() (timer.py, lines 20-24), statement by statement,      *)
(* while the Timer threads run.                                            *)
(***************************************************************************)
\* start, line 21: if not self.running; a start() that finds it set returns
StartTest ==
    /\ timers # <<>> /\ stop_pc = "idle" /\ calls < MaxStarts
    /\ stop_pc' = IF ~running THEN "start_set" ELSE "idle"
    /\ calls' = calls + 1
    /\ UNCHANGED <<mnu, height, lin, heap, disp, prog, conc, running, timer, timers, stop_t, late>>

\* start, line 22: self.running = True
StartSet ==
    /\ stop_pc = "start_set"
    /\ running' = TRUE
    /\ stop_pc' = "start_make"
    /\ UNCHANGED <<mnu, height, lin, heap, disp, calls, prog, conc, timer, timers, stop_t, late>>

\* start, line 23: self._timer = Timer(self.interval, self._run)
StartMake ==
    /\ stop_pc = "start_make"
    /\ Len(timers) < MaxTimers
    /\ timers' = Append(timers, "new")
    /\ timer' = Len(timers) + 1
    /\ stop_pc' = "start_start"
    /\ UNCHANGED <<mnu, height, lin, heap, disp, calls, prog, conc, running, stop_t, late>>

\* start, line 24: self._timer.start(); start returns
StartStart ==
    /\ stop_pc = "start_start"
    /\ timers' = [timers EXCEPT ![timer] = timer_start(@)]
    /\ stop_pc' = "idle"
    /\ UNCHANGED <<mnu, height, lin, heap, disp, calls, prog, conc, running, timer, stop_t, late>>

NextRepeat ==
    \/ NextTimer
    \/ StartTest
    \/ StartSet
    \/ StartMake
    \/ StartStart

SpecRepeat == Init /\ [][NextRepeat]_vars

(***************************************************************************)
(* SpecMenu: main.py builds the request menu from the project's request    *)
(* list and runs its main loop: wait_for_selection, then the request of    *)
(* the selection is built and executed.  A request list entry is its       *)
(* method and its desc; a request is the entry it was built from and its   *)
(* kind.  What fire, start and display_and_browse do is in the other       *)
(* specifications.                                                         *)
(***************************************************************************)
\* Verb.__members__ (api_request.py, lines 15-20)
Verbs == {"GET", "POST", "PUT", "PATCH", "DELETE"}

\* main.py, build_request (lines 117-148); the desc of the request is the
\* pieces of text that SocketIORequest (socketio_request.py, line 41) and
\* ApiRequest (api_request.py, line 98) make it of
build_request(request_json) ==
    IF request_json.method = "Socket.IO"
    THEN [kind |-> "socket", desc |-> <<request_json.desc>>,
          method |-> request_json.method]
    ELSE IF request_json.method \in Verbs
         THEN [kind |-> "api", desc |-> <<request_json.desc, " - ", request_json.method>>,
               method |-> request_json.method]
         ELSE NoRequest

\* the truth value of what build_request returned
IsRequest(r) == r # NoRequest

\* main.py, line 210
shortcut_chars ==
    <<"0", "1", "2", "3", "4", "5", "6", "7", "8", "9", "a", "b", "c", "d", "e",
      "f", "g", "h", "i", "j", "k", "l", "m", "n", "o", "p", "r", "s", "t", "u",
      "v", "w", "x", "y", "z">>

\* main.py, line 212: one blank for every request beyond the shortcuts
PaddedChars(n) ==
    shortcut_chars \o [i \in 1..Max(0, n - Len(shortcut_chars)) |-> " "]

\* main.py, lines 211-213: the requests that were built, each with the
\* shortcut of its place among them
menu_items(dicts) ==
    LET built_all == [i \in 1..Len(dicts) |-> build_request(dicts[i])]
        kept == SelectSeq(built_all, IsRequest)
        chars == PaddedChars(Len(built_all))
    IN  [i \in 1..Len(kept) |-> [desc |-> kept[i].desc, shortcut |-> chars[i]]]

\* main.py, line 217
QuitItem == [desc |-> <<"quit">>, shortcut |-> "q"]

\* MenuDisplay.__init__, line 20: whether shortcuts has the key, and its value
\* (the last item with that shortcut)
HasShortcut(its, key) == \E i \in 1..Len(its) : its[i].shortcut = key

shortcuts(its, key) ==
    (CHOOSE i \in 1..Len(its) :
        /\ its[i].shortcut = key
        /\ \A j \in (i + 1)..Len(its) : its[j].shortcut # key) - 1

\* MenuDisplay.scroll_up (lines 44-48) and scroll_down (lines 50-54)
scroll_up(sel, count) == IF sel - 1 < 0 THEN count - 1 ELSE sel - 1

scroll_down(sel, count) == IF sel + 1 > count - 1 THEN 0 ELSE sel + 1

\* the request lists of a project: up to MaxEntries entries, of which some
\* have a method that is neither a verb nor Socket.IO
EntryInputs == [method : {"GET", "Socket.IO", "FETCH"}, desc : {"a", "b"}]

RequestLists == UNION {[1..len -> EntryInputs] : len \in 0..MaxEntries}

\* the keys read in the menu besides the arrows, ENTER and ESC
MenuKeys == {"0", "1", "2", "q", "z"}

\* main.py, lines 199 and 208-219: the request list is read, the menu is made
BuildMenu(dicts) ==
    /\ menu_pc = "start"
    /\ requests_dicts' = dicts
    /\ menu_list' = menu_items(dicts) \o <<QuitItem>>
    /\ selection' = 0
    /\ menu_started' = FALSE
    /\ menu_pc' = "loop"
    /\ UNCHANGED <<selected, built, disp, calls, prog, conc, tmr, height, lin, heap>>

\* main.py, line 233, wait_for_selection, lines 57-59: the display is started
WaitForSelection ==
    /\ menu_pc = "loop" /\ calls < MaxSelections
    /\ menu_started' = TRUE
    /\ menu_pc' = "select"
    /\ calls' = calls + 1
    /\ UNCHANGED <<requests_dicts, menu_list, selection, selected, built,
                   disp, prog, conc, tmr, height, lin, heap>>

\* wait_for_selection returns result; stopped tells whether line 84 was run
Return(result, stopped) ==
    /\ selected' = result
    /\ menu_started' = IF stopped THEN FALSE ELSE menu_started
    /\ menu_pc' = "returned"
    /\ UNCHANGED <<requests_dicts, menu_list, selection, built,
                   disp, calls, prog, conc, tmr, height, lin, heap>>

\* wait_for_selection, lines 69-72
MenuKeyUp ==
    /\ menu_pc = "select"
    /\ selection' = scroll_up(selection, Len(menu_list))
    /\ UNCHANGED <<requests_dicts, menu_list, menu_started, selected, built, menu_pc,
                   disp, calls, prog, conc, tmr, height, lin, heap>>

MenuKeyDown ==
    /\ menu_pc = "select"
    /\ selection' = scroll_down(selection, Len(menu_list))
    /\ UNCHANGED <<requests_dicts, menu_list, menu_started, selected, built, menu_pc,
                   disp, calls, prog, conc, tmr, height, lin, heap>>

\* wait_for_selection, lines 73-74: ESC
MenuEscape == menu_pc = "select" /\ Return(None, FALSE)

\* wait_for_selection, lines 75-77 and 84-85: ENTER
MenuEnter == menu_pc = "select" /\ Return(selection, TRUE)

\* wait_for_selection, lines 78-80 and 84-85: a key that is a shortcut ends
\* the loop, any other key is read and the loop goes on
MenuShortcut(key) ==
    /\ menu_pc = "select"
    /\ IF key # " " /\ HasShortcut(menu_list, key)
       THEN Return(shortcuts(menu_list, key), TRUE)
       ELSE UNCHANGED vars

\* wait_for_selection, lines 81-85: KeyboardInterrupt
MenuInterrupt == menu_pc = "select" /\ Return(None, TRUE)

\* main.py, lines 234-252: the loop ends, or the request of the selection is
\* built and, unless build_request returned None, executed
Dispatch ==
    /\ menu_pc = "returned"
    /\ IF selected = None \/ selected >= Len(menu_list) - 1
       THEN menu_pc' = "exit" /\ built' = built
       ELSE menu_pc' = "loop" /\ built' = build_request(requests_dicts[selected + 1])
    /\ UNCHANGED <<requests_dicts, menu_list, selection, menu_started, selected,
                   disp, calls, prog, conc, tmr, height, lin, heap>>

NextMenu ==
    \/ \E dicts \in RequestLists : BuildMenu(dicts)
    \/ WaitForSelection
    \/ MenuKeyUp
    \/ MenuKeyDown
    \/ MenuEscape
    \/ MenuEnter
    \/ \E key \in MenuKeys : MenuShortcut(key)
    \/ MenuInterrupt
    \/ Dispatch

SpecMenu == Init /\ [][NextMenu]_vars

(***************************************************************************)
(* SpecThreads: the program with its threads.  "main" runs main.py, "sio"  *)
(* runs the handlers of the Socket.IO client, "tick" runs the callback of  *)
(* the progress ticker.  A handler is a sequence of steps, kept in todo;   *)
(* the steps of different threads interleave.  A print is two steps, the   *)
(* append (lines 34-43, or lines 49-144 of print_json) and the draw it     *)
(* ends with; so is a set_collapsed that changes a flag (lines 255-265,    *)
(* then line 267).  "with self.display.mutex" is an acquire step and a     *)
(* release step.  The other branches of the browse loop are one step.      *)
(***************************************************************************)
\* the rows of the buffer
Rows == 0..(Len(content) - 1)

\* a step: what it does (op), the method it is a part of (of), its arguments
Step(op, of, s, obj, flag, n) ==
    [op |-> op, of |-> of, s |-> s, obj |-> obj, flag |-> flag, n |-> n]

Acquire == <<Step("acquire", "with", <<>>, NoValue, FALSE, 0)>>
Release == <<Step("release", "with", <<>>, NoValue, FALSE, 0)>>

\* display.print(s, flush)
PrintSteps(s, flush) ==
    <<Step("append", "print", s, NoValue, flush, 0),
      Step("draw", "print", <<>>, NoValue, FALSE, 0)>>

\* display.print_json(obj, flush)
PrintJsonSteps(obj, flush) ==
    <<Step("json", "print_json", <<>>, obj, flush, 0),
      Step("draw", "print_json", <<>>, NoValue, FALSE, 0)>>

\* display.set_collapsed(line_num, collapsed), when it changes the flag
CollapseSteps(line_num, collapsed) ==
    <<Step("collapse", "set_collapsed", <<>>, NoValue, collapsed, line_num),
      Step("draw", "set_collapsed", <<>>, NoValue, FALSE, 0)>>

\* the draw at the top of the browse loop (line 279)
LoopDraw == <<Step("draw", "display_and_browse", <<>>, NoValue, FALSE, 0)>>

\* the handlers of socketio_request.py
start_steps == Acquire \o PrintSteps(<<"\n", "C">>, TRUE) \o Release

on_connect_steps(data) ==
    Acquire \o PrintSteps(<<"\n", "O">>, TRUE) \o Release
    \o Acquire \o PrintSteps(<<"\n", "E">>, TRUE) \o PrintJsonSteps(data, TRUE)
    \o Release

callback_steps(data) ==
    Acquire \o PrintSteps(<<"\n", "A">>, TRUE) \o PrintJsonSteps(data, TRUE) \o Release

on_event_steps(data) ==
    Acquire \o PrintSteps(<<"\n", "V">>, TRUE) \o PrintJsonSteps(data, TRUE) \o Release

on_connect_error_steps(data) ==
    Acquire \o PrintSteps(<<"\n", "F">>, TRUE) \o PrintJsonSteps(data, TRUE) \o Release

disconnect_steps == Acquire \o PrintSteps(<<"\n", "D">>, TRUE) \o Release

\* ApiRequest.fire after the request has returned (lines 161-168)
fire_receive_steps(response) ==
    PrintSteps(<<"\n", "R", "\n">>, TRUE)
    \o (IF Truthy(response) THEN PrintJsonSteps(response, TRUE)
        ELSE PrintSteps(JsonDumps(response), TRUE))

\* the ticker's callback (api_request.py, line 147)
tick_steps == PrintSteps(<<".">>, FALSE)

\* the values printed in this specification
SmallInputs == {v \in ValuesUpTo(MaxPayload) : v.t = "obj" /\ ScalarsAre(v, "num")}

Idle(th) == todo[th] = <<>>

\* thread th is at a step op
At(th, op) == todo[th] # <<>> /\ Head(todo[th]).op = op

\* thread th runs the steps, from its next step on
Run(th, steps) == todo' = [todo EXCEPT ![th] = steps]

\* thread th has done its step
Done(th) == todo' = [todo EXCEPT ![th] = Tail(@)]

\* "with self.display.mutex" is entered
StepAcquire(th) ==
    /\ fault = "none" /\ At(th, "acquire") /\ mutex = "free"
    /\ mutex' = th
    /\ Done(th)
    /\ UNCHANGED <<mnu, height, lin, heap, disp, calls, prog, tmr>>

\* "with self.display.mutex" is left
StepRelease(th) ==
    /\ fault = "none" /\ At(th, "release")
    /\ mutex' = "free"
    /\ Done(th)
    /\ UNCHANGED <<mnu, height, lin, heap, disp, calls, prog, tmr>>

\* print up to its draw
StepAppend(th) ==
    /\ fault = "none" /\ At(th, "append")
    /\ Set(print_append(Display, Head(todo[th]).s, Head(todo[th]).flag))
    /\ Done(th)
    /\ UNCHANGED <<mnu, height, lin, heap, calls, prog, mutex, tmr>>

\* print_json up to its draw
StepJson(th) ==
    /\ fault = "none" /\ At(th, "json")
    /\ Set(print_json_append(Display, Head(todo[th]).obj, Head(todo[th]).flag))
    /\ Done(th)
    /\ UNCHANGED <<mnu, height, lin, heap, calls, prog, mutex, tmr>>

\* set_collapsed up to its draw
StepCollapse(th) ==
    /\ fault = "none" /\ At(th, "collapse")
    /\ Set(set_collapsed_update(Display, Head(todo[th]).n, Head(todo[th]).flag))
    /\ Done(th)
    /\ UNCHANGED <<mnu, height, lin, heap, calls, prog, mutex, tmr>>

\* LinesDisplay.draw
StepDraw(th) ==
    /\ fault = "none" /\ At(th, "draw")
    /\ Set(draw(Display))
    /\ Done(th)
    /\ UNCHANGED <<mnu, height, lin, heap, calls, prog, mutex, tmr>>

\* main.py, line 245: fire prints the request, makes the ticker and sends
TSend ==
    /\ fault = "none" /\ pc = "menu" /\ calls < MaxRequests /\ Idle("main")
    /\ Set(fire_send(Display, NoValue, NoValue))
    /\ pc' = "wait"
    /\ calls' = calls + 1
    /\ UNCHANGED <<mnu, height, lin, heap, sock, conc, tmr>>

\* the ticker fires while the response is awaited; its dots gather on the
\* last line
TTick ==
    /\ fault = "none" /\ pc = "wait" /\ Idle("tick")
    /\ Len(content[Len(content)].s) < MaxTicks
    /\ Run("tick", tick_steps)
    /\ UNCHANGED <<mnu, height, lin, heap, disp, calls, prog, mutex, tmr>>

\* the response arrives and fire prints it
TReceive(response) ==
    /\ fault = "none" /\ pc = "wait" /\ Idle("main")
    /\ Run("main", fire_receive_steps(response))
    /\ pc' = "fired"
    /\ UNCHANGED <<mnu, height, lin, heap, disp, calls, sock, mutex, tmr>>

\* main.py, line 250: SocketIORequest.start
TSocketStart ==
    /\ fault = "none" /\ pc = "menu" /\ calls < MaxRequests /\ Idle("main")
    /\ Run("main", start_steps)
    /\ pc' = "fired"
    /\ sock' = "started"
    /\ calls' = calls + 1
    /\ UNCHANGED <<mnu, height, lin, heap, disp, mutex, tmr>>

\* a handler of the Socket.IO client is called
Handle(steps) ==
    /\ fault = "none" /\ calls < MaxCalls /\ Idle("sio")
    /\ Run("sio", steps)
    /\ calls' = calls + 1
    /\ UNCHANGED <<mnu, height, lin, heap, disp, pc, mutex, tmr>>

TOnConnect(data) == sock = "started" /\ Handle(on_connect_steps(data)) /\ sock' = "connected"
TOnConnectError(data) ==
    sock = "started" /\ Handle(on_connect_error_steps(data)) /\ sock' = "failed"
TCallback(data) == sock = "connected" /\ Handle(callback_steps(data)) /\ sock' = sock
TOnEvent(data) == sock = "connected" /\ Handle(on_event_steps(data)) /\ sock' = sock
TDisconnect == sock = "stopping" /\ Handle(disconnect_steps) /\ sock' = "off"

\* main.py, line 254: display_and_browse is entered
TBrowseEnter ==
    /\ fault = "none" /\ pc = "fired" /\ Idle("main")
    /\ Set(browse_enter(Display))
    /\ Run("main", LoopDraw)
    /\ pc' = "browse"
    /\ UNCHANGED <<mnu, height, lin, heap, calls, sock, mutex, tmr>>

\* a key whose branch is one step; the loop then draws
TKey(d) ==
    /\ fault = "none" /\ pc = "browse" /\ Idle("main")
    /\ Set(d)
    /\ Run("main", LoopDraw)
    /\ UNCHANGED <<mnu, height, lin, heap, calls, prog, mutex, tmr>>

\* whether LEFT (collapsed = TRUE) or RIGHT calls a set_collapsed that changes
\* a flag
Collapses(collapsed) ==
    /\ mode = "JSON"
    /\ cursor_row \in Rows
    /\ content[cursor_row + 1].json.type # "STRING"
    /\ ~set_collapsed_returns(Display, cursor_row, collapsed)

\* LEFT or RIGHT on a container
TKeyCollapse(collapsed) ==
    /\ fault = "none" /\ pc = "browse" /\ Idle("main")
    /\ Collapses(collapsed)
    /\ Run("main", CollapseSteps(cursor_row, collapsed) \o LoopDraw)
    /\ UNCHANGED <<mnu, height, lin, heap, disp, calls, prog, mutex, tmr>>

TKeyUp == TKey(key_up(Display))
TKeyDown == TKey(key_down(Display))
TKeyLeft == ~Collapses(TRUE) /\ TKey(key_left(Display))
TKeyRight == ~Collapses(FALSE) /\ TKey(key_right(Display))
TKeySpace == TKey(cycle_mode(Display))

\* ESC, q, ENTER or a KeyboardInterrupt: the loop ends, the display stops, and
\* main.py stops a socket request (lines 256-257)
TKeyExit ==
    /\ fault = "none" /\ pc = "browse" /\ Idle("main")
    /\ Set(stop(Display))
    /\ pc' = "menu"
    /\ sock' = IF sock \in {"started", "connected"} THEN "stopping" ELSE sock
    /\ UNCHANGED <<mnu, height, lin, heap, calls, conc, tmr>>

NextThreads ==
    \/ \E th \in Threads : StepAcquire(th)
    \/ \E th \in Threads : StepRelease(th)
    \/ \E th \in Threads : StepAppend(th)
    \/ \E th \in Threads : StepJson(th)
    \/ \E th \in Threads : StepCollapse(th)
    \/ \E th \in Threads : StepDraw(th)
    \/ TSend
    \/ TTick
    \/ \E response \in SmallInputs : TReceive(response)
    \/ TSocketStart
    \/ \E data \in SmallInputs : TOnConnect(data)
    \/ \E data \in SmallInputs : TOnConnectError(data)
    \/ \E data \in SmallInputs : TCallback(data)
    \/ \E data \in SmallInputs : TOnEvent(data)
    \/ TDisconnect
    \/ TBrowseEnter
    \/ TKeyUp
    \/ TKeyDown
    \/ TKeyLeft
    \/ TKeyRight
    \/ \E collapsed \in BOOLEAN : TKeyCollapse(collapsed)
    \/ TKeySpace
    \/ TKeyExit

SpecThreads == Init /\ [][NextThreads]_vars

(***************************************************************************)
(* SpecRace: ApiRequest.fire with its ticker, print taken statement by     *)
(* statement.  The ticker's callback print('.', flush=False) runs on a     *)
(* Timer thread without the mutex; fire prints on the main thread after    *)
(* the request has returned.  A thread can be switched between reading     *)
(* self.content and assigning it.  The statements of print are steps:      *)
(* "test" (lines 34-37), "prev" (line 41), "slice" (line 42, the right     *)
(* side), "store" (line 42, the assignment), "load", "extend" and "save"   *)
(* (line 43: self.content is loaded, the list is extended in place, and    *)
(* self.content is assigned the same list), "draw" (line 44).              *)
(***************************************************************************)
\* the response line 'Received response ...' and the response text
ReceivedText == <<"\n", "R", "\n">>
ResponseText == <<"x">>

\* display.print(s, flush), statement by statement
RacePrintSteps(s, flush) ==
    <<Step("test", "print", s, NoValue, flush, 0),
      Step("prev", "print", s, NoValue, flush, 0),
      Step("slice", "print", s, NoValue, flush, 0),
      Step("store", "print", s, NoValue, flush, 0),
      Step("load", "print", s, NoValue, flush, 0),
      Step("extend", "print", s, NoValue, flush, 0),
      Step("save", "print", s, NoValue, flush, 0),
      Step("draw", "print", <<>>, NoValue, FALSE, 0)>>

\* a step of print that leaves the display as it is
RaceLocal(th) ==
    /\ Done(th)
    /\ UNCHANGED <<mnu, height, lin, disp, calls, prog, mutex, tmr, lists, ref>>

\* a step of print that sets self.content, or changes the list it refers to
RaceShared(th) ==
    /\ content' = lists'[ref']
    /\ Done(th)
    /\ UNCHANGED <<mnu, height, lin, started, top_row, bottom_row, cursor_row, mode,
                   header, footer, fault, calls, prog, mutex, tmr, held>>

\* lines 34-37: new_lines, and the test for the merge
RaceTest(th) ==
    /\ fault = "none" /\ At(th, "test") /\ started
    /\ LET merge == /\ Splitlines(Head(todo[th]).s) # <<>>
                     /\ content # <<>>
                     /\ ~Head(todo[th]).flag
       IN /\ held' = [held EXCEPT ![th] = [NoLocals EXCEPT !.merged = merge]]
          /\ todo' = [todo EXCEPT ![th] = IF merge THEN Tail(@)
                                          ELSE SubSeq(@, 5, Len(@))]
    /\ UNCHANGED <<mnu, height, lin, disp, calls, prog, mutex, tmr, lists, ref>>

\* line 41: prev_line = self.content[-1]
RacePrev(th) ==
    /\ fault = "none" /\ At(th, "prev") /\ content # <<>>
    /\ held' = [held EXCEPT ![th].prev = content[Len(content)].s]
    /\ RaceLocal(th)

\* line 42, right side: self.content[:-1] + [Line(prev_line.s + first_new_line.s)]
RaceSlice(th) ==
    /\ fault = "none" /\ At(th, "slice")
    /\ held' = [held EXCEPT ![th].base =
                   SubSeq(content, 1, Len(content) - 1)
                   \o <<NewLine(held[th].prev \o Splitlines(Head(todo[th]).s)[1])>>]
    /\ RaceLocal(th)

\* line 42, the assignment: self.content refers to the new list
RaceStore(th) ==
    /\ fault = "none" /\ At(th, "store")
    /\ lists' = Append(lists, held[th].base)
    /\ ref' = Len(lists) + 1
    /\ RaceShared(th)

\* line 43: self.content is loaded
RaceLoad(th) ==
    /\ fault = "none" /\ At(th, "load")
    /\ held' = [held EXCEPT ![th].obj = ref]
    /\ RaceLocal(th)

\* line 43: the loaded list is extended in place by new_lines
RaceExtend(th) ==
    /\ fault = "none" /\ At(th, "extend")
    /\ LET new_lines == Splitlines(Head(todo[th]).s)
           rest == IF held[th].merged THEN Tail(new_lines) ELSE new_lines
       IN lists' = [lists EXCEPT ![held[th].obj] =
                       @ \o [i \in 1..Len(rest) |-> NewLine(rest[i])]]
    /\ ref' = ref
    /\ RaceShared(th)

\* line 43: self.content is assigned the loaded list
RaceSave(th) ==
    /\ fault = "none" /\ At(th, "save")
    /\ lists' = lists
    /\ ref' = held[th].obj
    /\ RaceShared(th)

\* fire prints the request (lines 126-139); the ticker is made after it
RaceSend ==
    /\ fault = "none" /\ pc = "menu" /\ calls = 0
    /\ Set(fire_send(Display, NoValue, NoValue))
    /\ lists' = <<fire_send(Display, NoValue, NoValue).content>>
    /\ ref' = 1
    /\ pc' = "wait"
    /\ calls' = calls + 1
    /\ UNCHANGED <<mnu, height, lin, held, sock, conc, tmr>>

\* a Timer of the ticker calls the callback while the request is awaited
RaceTick ==
    /\ fault = "none" /\ pc = "wait" /\ Idle("tick") /\ calls <= MaxTicks
    /\ Run("tick", RacePrintSteps(<<".">>, FALSE))
    /\ calls' = calls + 1
    /\ UNCHANGED <<mnu, height, lin, heap, disp, prog, mutex, tmr>>

\* the request returns; fire prints the response (lines 161-168)
RaceReceive ==
    /\ fault = "none" /\ pc = "wait" /\ Idle("main")
    /\ Run("main", RacePrintSteps(ReceivedText, TRUE)
                   \o RacePrintSteps(ResponseText, TRUE))
    /\ pc' = "fired"
    /\ UNCHANGED <<mnu, height, lin, heap, disp, calls, sock, mutex, tmr>>

NextRace ==
    \/ RaceSend
    \/ RaceTick
    \/ RaceReceive
    \/ \E th \in Threads : RaceTest(th)
    \/ \E th \in Threads : RacePrev(th)
    \/ \E th \in Threads : RaceSlice(th)
    \/ \E th \in Threads : RaceStore(th)
    \/ \E th \in Threads : RaceLoad(th)
    \/ \E th \in Threads : RaceExtend(th)
    \/ \E th \in Threads : RaceSave(th)
    \/ \E th \in Threads : StepDraw(th)

SpecRace == Init /\ [][NextRace]_vars

(***************************************************************************)
(* SpecColors: Line.add_color_span called on a colors list, starting from  *)
(* any list whose offsets are strictly increasing.                         *)
(***************************************************************************)
\* the color pairs used as styles
Styles == {ColorDefault, ColorKey}

\* the offsets of a colors list are strictly increasing
StrictlyIncreasing(colors) ==
    \A i \in 1..(Len(colors) - 1) : colors[i][1] < colors[i + 1][1]

\* the colors lists with strictly increasing offsets up to MaxOffset
RECURSIVE ColorLists(_)
ColorLists(n) ==
    IF n = 0 THEN {<<>>}
    ELSE ColorLists(n - 1) \cup
         {Append(l, <<o, c>>) :
             l \in {k \in ColorLists(n - 1) : Len(k) = n - 1},
             o \in 0..MaxOffset, c \in Styles}

ColorInputs == {l \in ColorLists(MaxOffset + 1) : StrictlyIncreasing(l)}

InitColors ==
    InitProgram /\ height = Height /\ breakpoints \in ColorInputs /\ NoLine

\* colors = line.add_color_span(colors, color_i, start, w)
AddColorSpan(color_i, at, w) ==
    /\ calls < MaxSpans
    /\ breakpoints' = add_color_span(breakpoints, color_i, at, w)
    /\ calls' = calls + 1
    /\ UNCHANGED <<mnu, disp, prog, conc, tmr, height, heap, ln, width, painted>>

NextColors ==
    \E color_i \in Styles, at \in 0..MaxOffset, w \in 1..MaxOffset :
        AddColorSpan(color_i, at, w)

SpecColors == InitColors /\ [][NextColors]_vars

(***************************************************************************)
(* SpecLine: one Line of the buffer, its offset and collapsed flag changed *)
(* as the browse loop changes them, drawn at a terminal width.             *)
(***************************************************************************)
\* 'Sending GET', a text longer than the terminal is wide
LongText == <<"S", "e", "n", "d", "i", "n", "g", " ", "G", "E", "T">>

\* the lines print and print_json put into the buffer
LineInputs ==
    {print_append(InitDisplay, LongText, TRUE).content[1]}
    \cup UNION {{print_json_append(InitDisplay, obj, TRUE).content[i] :
                    i \in 1..Len(Splitlines(JsonDumps(obj)))} : obj \in JsonValues}

InitLine ==
    /\ InitProgram /\ height = Height /\ breakpoints = <<>>
    /\ ln \in LineInputs
    /\ width \in MinWidth..Width
    /\ painted = <<>>

\* LinesDisplay.draw, line 174: the line can hold the cursor
Eligible(line) == HasJson(line) /\ (HasKey(line.json) \/ Collapsible(line.json))

\* line.draw(scr, row, width, cursor_span) as Display.draw_lines calls it
LineDraw(cursor) ==
    /\ cursor => Eligible(ln)
    /\ ln' = Drawn(ln, width, IF cursor THEN CursorSpan(ln) ELSE NoSpan).line
    /\ painted' = Paint(Drawn(ln, width, IF cursor THEN CursorSpan(ln) ELSE NoSpan),
                        width)
    /\ UNCHANGED <<mnu, disp, calls, prog, conc, tmr, height, heap, breakpoints, width>>

\* line.increase_offset(width)
IncreaseOffset ==
    /\ ln' = increase_offset(ln, width)
    /\ UNCHANGED <<mnu, disp, calls, prog, conc, tmr, height, heap, breakpoints, width, painted>>

\* line.decrease_offset()
DecreaseOffset ==
    /\ ln' = decrease_offset(ln)
    /\ UNCHANGED <<mnu, disp, calls, prog, conc, tmr, height, heap, breakpoints, width, painted>>

\* line.json.collapsed = collapsed (set_collapsed, line 261)
SetCollapsed(collapsed) ==
    /\ Collapsible(ln.json)
    /\ ln' = [ln EXCEPT !.json.collapsed = collapsed]
    /\ UNCHANGED <<mnu, disp, calls, prog, conc, tmr, height, heap, breakpoints, width, painted>>

NextLine ==
    \/ \E cursor \in BOOLEAN : LineDraw(cursor)
    \/ IncreaseOffset
    \/ DecreaseOffset
    \/ \E collapsed \in BOOLEAN : SetCollapsed(collapsed)

SpecLine == InitLine /\ [][NextLine]_vars

(***************************************************************************)
(* The structure of the buffer, read from its text and line types alone    *)
(* (never from pair_idx, child_count or hidden): the brackets that open    *)
(* and close, and which closes which.                                      *)
(***************************************************************************)
\* row r is the start line of an object or array
OpensAt(c, r) == c[r + 1].json.type \in StartTypes

\* row r begins with a closing bracket
ClosesAt(c, r) ==
    LET u == Lstrip(c[r + 1].s) IN u # <<>> /\ u[1] \in {"]", "}"}

\* between rows n and m (both excluded) as many brackets open as close
Balanced(c, n, m) ==
    Cardinality({j \in (n + 1)..(m - 1) : OpensAt(c, j)})
        = Cardinality({j \in (n + 1)..(m - 1) : ClosesAt(c, j)})

\* the row of the bracket that closes the container starting at row n
MatchingEnd(c, n) ==
    LET ends == {m \in (n + 1)..(Len(c) - 1) : ClosesAt(c, m) /\ Balanced(c, n, m)}
    IN IF ends = {} THEN None ELSE CHOOSE m \in ends : \A k \in ends : m <= k

\* the rows of the direct elements of the array starting at row n
DirectElements(c, n) ==
    {j \in (n + 1)..(MatchingEnd(c, n) - 1) : ~ClosesAt(c, j) /\ Balanced(c, n, j)}

\* the collapsed container starts whose (start, end] range holds row r
CollapsedAround(c, r) ==
    {n \in 0..(r - 1) : /\ OpensAt(c, n)
                        /\ c[n + 1].json.collapsed
                        /\ r <= MatchingEnd(c, n)}

\* the rows whose hidden counter a step changes
HiddenChanged ==
    {r \in Rows : content'[r + 1].json.hidden # content[r + 1].json.hidden}

\* the buffer after set_collapsed(n, True) and then set_collapsed(n, False),
\* an IndexError of the first call being caught by the caller
CollapseThenExpand(n) ==
    LET d1 == set_collapsed(Display, n, TRUE)
    IN set_collapsed([d1 EXCEPT !.fault = "none"], n, FALSE)

\* the text that Line.draw has to fit into the width: s after lines 82-105
Rendered(line) == DrawOffset(DrawEntity(DrawStart(line))).s

\* the characters of the cells that Line.draw wrote
PaintedText == [i \in 1..Len(painted) |-> painted[i][1]]

\* the largest offset of a line on a terminal of w columns
OffsetCap(line, w) == Max(0, Len(line.s) - w + OffsetMargin)

\* the rows at or after top_row that can hold the cursor and are not hidden
VisibleTargets ==
    {r \in top_row..(Len(content) - 1) :
        Eligible(content[r + 1]) /\ content[r + 1].json.hidden = 0}

\* the cursor is undefined or outside the window
CursorOutside ==
    cursor_row = None \/ cursor_row < top_row \/ cursor_row > bottom_row

\* the rows of the buffer that are visible and can hold the cursor
CursorRows ==
    {r \in Rows : Eligible(content[r + 1]) /\ content[r + 1].json.hidden = 0}

\* the largest of a non-empty set of rows, and the smallest
Largest(rows) == CHOOSE r \in rows : \A q \in rows : q <= r
Smallest(rows) == CHOOSE r \in rows : \A q \in rows : r <= q

\* the rows that no collapsed container hides
ShownRows == {r \in Rows : content[r + 1].json.hidden = 0}

\* the row reached from top_row by n steps up (down), each to the nearest
\* shown row: the row with min(n, number of shown rows on that side) shown
\* rows between top_row and itself, itself included
UpBy(n) ==
    LET above == {r \in ShownRows : r < top_row}
    IN IF above = {} THEN top_row
       ELSE CHOOSE r \in above :
               Cardinality({q \in above : q >= r}) = Min(n, Cardinality(above))

DownBy(n) ==
    LET below == {r \in ShownRows : r > top_row}
    IN IF below = {} THEN top_row
       ELSE CHOOSE r \in below :
               Cardinality({q \in below : q <= r}) = Min(n, Cardinality(below))

\* the style in effect at offset o: that of the last breakpoint at or before
\* o, the default style before the first breakpoint
StyleAt(colors, o) ==
    LET upto == SelectSeq(colors, LAMBDA c : c[1] <= o)
    IN IF upto = <<>> THEN ColorDefault ELSE upto[Len(upto)][2]

\* text p is the beginning of text s
StartsWith(s, p) == Len(p) <= Len(s) /\ SubSeq(s, 1, Len(p)) = p

\* the lines fire appends after the request: '', the response line, the text
ForegroundLines == Splitlines(ReceivedText) \o Splitlines(ResponseText)

\* the buffer holds the lines ls, in this order, each with its whole text
\* (which the ticker's dot may follow)
RECURSIVE HoldsFrom(_, _, _)
HoldsFrom(c, ls, from) ==
    IF ls = <<>> THEN TRUE
    ELSE \E i \in from..Len(c) :
            StartsWith(c[i].s, ls[1]) /\ HoldsFrom(c, Tail(ls), i + 1)

\* thread th has appended and has not yet drawn
Printing(th) == At(th, "draw") /\ Head(todo[th]).of \in {"print", "print_json"}

(***************************************************************************)
(* C1: after any sequence of print and print_json calls, the pair_idx of   *)
(* every object-start or array-start line is the row of its own closing    *)
(* bracket, which is a later row.                                          *)
(***************************************************************************)
C1_StartPairIsOwnEnd ==
    \A n \in Rows :
        OpensAt(content, n) =>
            /\ MatchingEnd(content, n) > n
            /\ content[n + 1].json.pair_idx = MatchingEnd(content, n)

(***************************************************************************)
(* C2: after any sequence of print and print_json calls, the pair_idx of   *)
(* every object-end or array-end line is the row of its matching start.    *)
(***************************************************************************)
C2_EndPairIsOwnStart ==
    \A m \in Rows :
        content[m + 1].json.type \in EndTypes =>
            \E n \in 0..(m - 1) :
                /\ OpensAt(content, n)
                /\ MatchingEnd(content, n) = m
                /\ content[m + 1].json.pair_idx = n

(***************************************************************************)
(* C3: the hidden counter of every annotated line is the number of         *)
(* collapsed container starts whose (start, end] range holds the line,     *)
(* and is never below 0.                                                   *)
(***************************************************************************)
C3_HiddenCountsCollapsedAncestors ==
    \A r \in Rows :
        HasJson(content[r + 1]) =>
            /\ content[r + 1].json.hidden >= 0
            /\ content[r + 1].json.hidden = Cardinality(CollapsedAround(content, r))

(***************************************************************************)
(* C4: a set_collapsed call that changes the collapsed flag of the         *)
(* container start n changes the hidden counter of exactly the lines in    *)
(* rows n+1 .. the row of n's matching end.                                *)
(***************************************************************************)
C4_CollapseChangesExactlyItsRange ==
    [][\A n \in Rows :
          (/\ Len(content') = Len(content)
           /\ OpensAt(content, n)
           /\ content'[n + 1].json.collapsed # content[n + 1].json.collapsed)
          => HiddenChanged = (n + 1)..MatchingEnd(content, n)]_vars

(***************************************************************************)
(* C5: set_collapsed(n, True) followed by set_collapsed(n, False) leaves   *)
(* every line (its hidden counter, its collapsed flag) as it was before    *)
(* the two calls.  An IndexError of the first call is taken as caught, so  *)
(* that the second call is made.                                           *)
(***************************************************************************)
\* C5 as stated: the round trip restores the buffer for every container
\* start and every prior collapse state, n already collapsed included
C5_RoundTripFromAnyState ==
    \A n \in Rows :
        (fault = "none" /\ OpensAt(content, n)) =>
            CollapseThenExpand(n).content = content

\* C5 as amended: the round trip restores the buffer for every container
\* start that is expanded before the calls, whatever is collapsed inside it
C5_RoundTripFromExpanded ==
    \A n \in Rows :
        (fault = "none" /\ OpensAt(content, n) /\ ~content[n + 1].json.collapsed) =>
            CollapseThenExpand(n).content = content

\* C5 case: an expanded container start that holds a collapsed one, and
\* whose collapse changes the buffer
C5_Witness ==
    \E n \in Rows :
        /\ fault = "none"
        /\ OpensAt(content, n)
        /\ ~content[n + 1].json.collapsed
        /\ \E m \in (n + 1)..MatchingEnd(content, n) :
              OpensAt(content, m) /\ content[m + 1].json.collapsed
        /\ set_collapsed(Display, n, TRUE).content # content

C7_BackgroundPrintsHoldMutex ==
    \A th \in Threads \ {"main"} : Printing(th) => mutex = th

(***************************************************************************)
(* C8: while the browse loop of the main thread is inside set_collapsed    *)
(* (the hidden counters are changed, the redraw is to come), no other      *)
(* thread is inside a print or print_json.                                 *)
(***************************************************************************)
C8_BrowseExcludesBackgroundPrints ==
    (pc = "browse" /\ At("main", "draw") /\ Head(todo["main"]).of = "set_collapsed")
        => \A th \in Threads \ {"main"} : ~Printing(th)

(***************************************************************************)
(* C9: once stop() has returned, the callback is called at most once more, *)
(* and when no _run is in progress any more, no Timer is left waiting.     *)
(***************************************************************************)
C9_StopEndsTheTicker ==
    stop_pc = "returned" =>
        /\ late <= 1
        /\ (\A k \in TimerIds : ~InRun(k)) => (\A k \in TimerIds : timers[k] # "waiting")

(***************************************************************************)
(* C10: the child_count of every array-start line is the number of direct  *)
(* elements of its array.                                                  *)
(***************************************************************************)
C10_ChildCountIsElementCount ==
    \A n \in Rows :
        content[n + 1].json.type = "ARR_START" =>
            content[n + 1].json.child_count
                = Cardinality(DirectElements(content, n))

(***************************************************************************)
(* C11: add_color_span called on a colors list whose offsets are strictly  *)
(* increasing returns a list whose offsets are strictly increasing, so no  *)
(* two breakpoints share an offset.                                        *)
(***************************************************************************)
C11_SpanKeepsOffsetsIncreasing ==
    [][StrictlyIncreasing(breakpoints) => StrictlyIncreasing(breakpoints')]_vars

(***************************************************************************)
(* C12: add_color_span is idempotent: called again with the arguments of   *)
(* the call that has just returned, it returns the list it was given.      *)
(***************************************************************************)
C12_SpanIsIdempotent ==
    [][\A color_i \in Styles, at \in 0..MaxOffset, w \in 1..MaxOffset :
          breakpoints' = add_color_span(breakpoints, color_i, at, w)
              => add_color_span(breakpoints', color_i, at, w) = breakpoints']_vars

(***************************************************************************)
(* C13: Line.draw leaves the Line as it was: its text, its colors list,    *)
(* its offset and its annotation, whatever the annotation, the collapsed   *)
(* flag, the offset, the width and the cursor span are.                    *)
(***************************************************************************)
C13_DrawLeavesLineUnchanged ==
    [][\A cursor \in BOOLEAN : LineDraw(cursor) => ln' = ln]_vars

\* C13 case: a string line with colors and an offset has been drawn, the case
\* in which draw assigns to elements of a colors list
C13_Witness ==
    /\ painted # <<>>
    /\ ln.json.type = "STRING" /\ ln.offset # 0 /\ ln.colors # <<>>

(***************************************************************************)
(* C16: when the text to render is longer than the width W (W >= 4), the   *)
(* text Line.draw paints has length W and ends with the marker '[…]'.      *)
(***************************************************************************)
C16_LongLineEndsWithMarker ==
    [][\A cursor \in BOOLEAN :
          (LineDraw(cursor) /\ width >= 4 /\ Len(Rendered(ln)) > width)
          => /\ Len(PaintedText') = width
             /\ SubSeq(PaintedText', width - 2, width) = Marker]_vars

\* C16 case: a line too long for the width has been drawn
C16_Witness ==
    /\ Len(Rendered(ln)) > width
    /\ Len(painted) = width
    /\ SubSeq(PaintedText, width - 2, width) = Marker

(***************************************************************************)
(* C17: the offset of an annotated line stays between 0 and                *)
(* max(0, S - W + 3); increase_offset adds 10 or stops at that cap,        *)
(* decrease_offset subtracts 10 or stops at 0.                             *)
(***************************************************************************)
C17_OffsetStaysInRange ==
    [][HasJson(ln) =>
          /\ ln'.offset >= 0 /\ ln'.offset <= OffsetCap(ln', width')
          /\ IncreaseOffset =>
                ln'.offset = IF ln.offset + 10 <= OffsetCap(ln, width)
                             THEN ln.offset + 10 ELSE OffsetCap(ln, width)
          /\ DecreaseOffset =>
                ln'.offset = IF ln.offset >= 10 THEN ln.offset - 10 ELSE 0]_vars

\* C17 case: the offset has grown by 10 and then stopped at a cap above 10
C17_Witness ==
    /\ HasJson(ln)
    /\ ln.offset > 10
    /\ ln.offset = OffsetCap(ln, width)

(***************************************************************************)
(* C14: cycle_mode in SCROLL mode with the cursor undefined or outside the *)
(* window puts the cursor on the first row at or after top_row that is     *)
(* eligible and not hidden and switches to JSON mode; without such a row   *)
(* the mode stays SCROLL.                                                  *)
(***************************************************************************)
C14_ToggleAnchorsOnVisibleLine ==
    (started /\ fault = "none" /\ mode = "SCROLL" /\ CursorOutside) =>
        IF VisibleTargets = {}
        THEN cycle_mode(Display).mode = "SCROLL"
        ELSE /\ cycle_mode(Display).mode = "JSON"
             /\ cycle_mode(Display).cursor_row \in VisibleTargets
             /\ \A r \in VisibleTargets : cycle_mode(Display).cursor_row <= r

(***************************************************************************)
(* C15: in JSON mode, after an up key or a down key (scroll_json_up,       *)
(* scroll_json_down), top_row <= cursor_row: the cursor is not above the   *)
(* window.                                                                 *)
(***************************************************************************)
C15_CursorStaysInWindow ==
    [][(mode = "JSON" /\ (KeyUp \/ KeyDown)) => top_row' <= cursor_row']_vars

(***************************************************************************)
(* C19: every key handler of the browse loop returns; the loop of          *)
(* scroll_json_down (scroll down and redraw while cursor_row > bottom_row) *)
(* ends on every buffer, collapse state and terminal height.               *)
(***************************************************************************)
C19_KeyHandlersReturn == fault # "hang"

(***************************************************************************)
(* C18: display_and_browse returns only when an exit key (ESC, q, ENTER)   *)
(* or a keyboard interrupt has been read, in either mode: an arrow key or  *)
(* the mode toggle or another key leaves the program in the loop; and when *)
(* it returns the display is stopped (started is False).                   *)
(***************************************************************************)
C18_OnlyExitKeyEndsBrowse ==
    [][/\ (pc = "browse" /\ pc' # "browse") => (KeyExit /\ pc' = "menu" /\ ~started')
       /\ (KeyUp \/ KeyDown \/ KeyLeft \/ KeyRight \/ KeySpace \/ KeyOther)
            => (pc' = "browse" /\ started')]_vars

\* C18 case: display_and_browse has returned from JSON mode
C18_Witness ==
    pc = "menu" /\ calls > 0 /\ mode = "JSON" /\ ~started

C21_AbortKeepsBuffer ==
    [][(fault = "none" /\ fault' = "IndexError") => content' = content]_vars

(***************************************************************************)
(* C22: in JSON mode an up key sets cursor_row to the largest visible and  *)
(* eligible row before the cursor, a down key to the smallest one after    *)
(* it; when there is no such row, cursor_row is unchanged and top_row      *)
(* takes one plain scroll step in that direction.                          *)
(***************************************************************************)
C22_CursorMovesToNearestTarget ==
    [][/\ (mode = "JSON" /\ KeyUp) =>
            LET before == {r \in CursorRows : r < cursor_row}
            IN IF before # {} THEN cursor_row' = Largest(before)
               ELSE /\ cursor_row' = cursor_row
                    /\ top_row' = scroll_screen_up(Display, 1).top_row
       /\ (mode = "JSON" /\ KeyDown) =>
            LET after == {r \in CursorRows : r > cursor_row}
            IN IF after # {} THEN cursor_row' = Smallest(after)
               ELSE /\ cursor_row' = cursor_row
                    /\ top_row' = scroll_screen_down(Display, 1).top_row]_vars

(***************************************************************************)
(* C23: in SCROLL mode the up and down keys move top_row by one step and   *)
(* the left and right keys by 30 steps (fewer when the rows run out), each *)
(* step going to the nearest row that is not hidden, in that direction;    *)
(* afterwards 0 <= top_row <= max(0, len(content) - 1).                    *)
(***************************************************************************)
C23_ScrollStepsOverShownRows ==
    [][(mode = "SCROLL" /\ fault' = "none") =>
          /\ KeyUp => top_row' = UpBy(1)
          /\ KeyDown => top_row' = DownBy(1)
          /\ KeyLeft => top_row' = UpBy(PageSize)
          /\ KeyRight => top_row' = DownBy(PageSize)
          /\ (pc = "browse" /\ pc' = "browse") =>
                (0 <= top_row' /\ top_row' <= Max(0, Len(content') - 1))]_vars

\* C23 case: in SCROLL mode the window has been scrolled past a hidden row
C23_Witness ==
    /\ pc = "browse" /\ mode = "SCROLL" /\ fault = "none"
    /\ \E r \in Rows : r < top_row /\ content[r + 1].json.hidden # 0

(***************************************************************************)
(* C24: the offset of a string-valued line never exceeds the length of its *)
(* string value, whatever the key, the indentation and the width, after    *)
(* any sequence of right and left keys.                                    *)
(***************************************************************************)
C24_OffsetWithinValue ==
    ln.json.type = "STRING" => ln.offset <= ln.json.value[2] - ln.json.value[1]

(***************************************************************************)
(* C25: add_color_span(colors, c, start, w) on a sorted list, w > 0, gives *)
(* style c at offset start and leaves the style in effect at every offset  *)
(* outside [start, start + w) as it was; so the style at start + w is the  *)
(* one that was in effect there before.                                    *)
(***************************************************************************)
C25_SpanKeepsStylesOutside ==
    [][\A color_i \in Styles, at \in 0..MaxOffset, w \in 1..MaxOffset :
          AddColorSpan(color_i, at, w) =>
             /\ StyleAt(breakpoints', at) = color_i
             /\ \A o \in 0..(2 * MaxOffset + 1) :
                   (o < at \/ o >= at + w) =>
                      StyleAt(breakpoints', o) = StyleAt(breakpoints, o)]_vars

\* C25 case: a span has been added and a style other than the default one is
\* resumed after it
C25_Witness ==
    /\ calls > 0 /\ Len(breakpoints) >= 3
    /\ breakpoints[Len(breakpoints)][2] = ColorKey
    /\ \E i \in 1..Len(breakpoints) : breakpoints[i][2] = ColorDefault

(***************************************************************************)
(* C26: print(s, flush=False) on a buffer that is not empty changes only   *)
(* the text of the tail line, which becomes the old text followed by the   *)
(* first line of s, and appends the other lines of s; every other line and *)
(* the annotation of the tail line are unchanged.  print(s, flush=True)    *)
(* changes no line and appends one line for each line of s.                *)
(***************************************************************************)
C26_PrintTouchesTailTextOnly ==
    [][\A s \in PrintInputs, flush \in BOOLEAN :
          (started /\ content # <<>> /\ ApiPrint(s, flush)) =>
             LET new == Splitlines(s)
                 n == Len(content)
             IN IF ~flush /\ new # <<>>
                THEN /\ Len(content') = n + Len(new) - 1
                     /\ SubSeq(content', 1, n - 1) = SubSeq(content, 1, n - 1)
                     /\ content'[n].s = content[n].s \o new[1]
                     /\ content'[n].json = content[n].json
                     /\ \A i \in 2..Len(new) : content'[n + i - 1].s = new[i]
                ELSE /\ Len(content') = n + Len(new)
                     /\ SubSeq(content', 1, n) = content
                     /\ \A i \in 1..Len(new) : content'[n + i].s = new[i]]_vars

(***************************************************************************)
(* C27: in every state of a browse session top_row is not the row of a     *)
(* hidden line, so that draw paints no line that a collapsed container     *)
(* hides.                                                                  *)
(***************************************************************************)
C27_TopRowIsShown ==
    (pc = "browse" /\ fault = "none" /\ top_row \in Rows) =>
        content[top_row + 1].json.hidden = 0

(***************************************************************************)
(* C28: whenever the mode is JSON in a browse session, cursor_row is not   *)
(* None, is the row of a line of the buffer, and that line has a key span  *)
(* or is a container start; also in a later session, for which start() has *)
(* emptied the buffer while cursor_row kept its value.                     *)
(***************************************************************************)
C28_CursorOnEligibleLine ==
    (pc = "browse" /\ fault = "none" /\ mode = "JSON") =>
        /\ cursor_row # None
        /\ cursor_row \in Rows
        /\ Eligible(content[cursor_row + 1])

(***************************************************************************)
(* C29: once display_and_browse has returned and stopped the display, an   *)
(* append by a handler of the Socket.IO client (an event, or the           *)
(* disconnect notification of SocketIORequest.stop) does not start the     *)
(* screen again: started stays False until the next request is fired.      *)
(***************************************************************************)
C29_StoppedUntilNextRequest ==
    [][(pc = "menu" /\ ~started /\ (StepAppend("sio") \/ StepJson("sio"))) =>
          (~started' /\ Len(content') >= Len(content))]_vars

(***************************************************************************)
(* C30: when a callback print('.', flush=False) of the ticker that is in   *)
(* flight interleaves with the prints of fire that follow the request, no  *)
(* line that fire appends is lost or overwritten: when both are done, the  *)
(* buffer holds every such line with its whole text.                       *)
(***************************************************************************)
C30_ForegroundLinesKept ==
    (pc = "fired" /\ Idle("main") /\ Idle("tick") /\ fault = "none") =>
        HoldsFrom(content, ForegroundLines, 1)

\* the Timers that wait for their interval
Pending == {k \in TimerIds : timers[k] = "waiting"}

(***************************************************************************)
(* C31: a RepeatingTimer never has more than one pending Timer (one that   *)
(* is waiting for its interval): a start() that finds the timer running    *)
(* makes none, and each _run makes one successor.                          *)
(***************************************************************************)
C31_OnePendingTimer == Cardinality(Pending) <= 1

(***************************************************************************)
(* C32: the request that is executed for a selection is the request whose  *)
(* description the menu shows at the selected position, whatever the       *)
(* request list, also when an entry with an unrecognised method was left   *)
(* out of the menu.                                                        *)
(***************************************************************************)
C32_ExecutesTheShownRequest ==
    [][(Dispatch /\ menu_pc' = "loop") =>
          /\ IsRequest(built')
          /\ built'.desc = menu_list[selected + 1].desc]_vars

(***************************************************************************)
(* C33: whenever wait_for_selection has returned, by ENTER, by a shortcut  *)
(* key, by a keyboard interrupt or by ESC, the menu's display is stopped   *)
(* (started is False).                                                     *)
(***************************************************************************)
C33_MenuStoppedOnReturn == menu_pc = "returned" => ~menu_started

====
